---- MODULE Spec2Model ----
(***************************************************************************)
(* Wine inventory: the wines / rack_slots tables behind the /api/wines     *)
(* routes, and the external wine lookup service (rate limiter, retry loop, *)
(* headless browser, normalizer and de-duplication).                       *)
(*                                                                         *)
(* Each component has its own specification (SpecDb, SpecApi, SpecRetry,   *)
(* SpecSim, SpecDedup, SpecRating); the variables of the other components  *)
(* stay at their initial values.                                           *)
(***************************************************************************)
EXTENDS Integers, Sequences, FiniteSets, TLC

VARIABLES
  \* ---- database (wines, rack_slots) and the last HTTP exchange
  wines, rack_slots, nextId, foreign_keys, lastOp,
  \* ---- WineApiService: clock, rate limiter, browser, requests in flight
  now, lastRequestTime, requestCount, releaseGap,
  browser, launched, live, pc, wakeAt, held, cleanupPc, closing, cleanups,
  \* ---- one call of retryWithExponentialBackoff
  attempt, lastError, rpc, history, waits, outcome, returned, thrown,
  \* ---- WineDataNormalizer: one call of calculateSimilarity, of
  \*      removeDuplicates and of normalizeRating
  wine1, wine2, similarity, simDone,
  results, unique, dedupDone,
  rating, source, normalized, ratingDone,
  \* ---- one call of WineApiService.searchWine
  options, cards, collected, searchResults, spc, vivinoFailed,
  \* ---- the validated columns of the wines table behind POST /api/wines,
  \*      PUT /api/wines/:id and POST /api/wines/:id/auto-populate
  cellar, checkYear, ap, lastReq,
  \* ---- the tables that reference wines(id), under DELETE /api/wines/:id
  wineRows, memories, images, food_pairings, slot_wine, enforced, nextWine,
  nextRow, lastDelete,
  \* ---- the food pairings router: its table and the last HTTP exchange
  pairings, nextPairing, exchange,
  \* ---- concurrent POST /api/wines/:id/consume requests for one wine
  target, targetSlot, consumePc, seen, requestDate, response, dateWrites,
  \* ---- normalizeRegion applied twice
  regionArg, regionPc, regionOnce, regionTwice,
  \* ---- the memories router: its table, the images table, the last exchange
  memoryTable, imageTable, migrated, nextMemory, memoryOp,
  \* ---- the pages of one Vivino search with its retries
  vPc, vAttempt, page, openPages, closeSettled, closeFailed, pagesMade,
  pending, vOutcome

dbVars == <<wines, rack_slots, nextId, foreign_keys, lastOp>>
apiVars == <<now, lastRequestTime, requestCount, releaseGap,
             browser, launched, live, pc, wakeAt, held, cleanupPc, closing,
             cleanups>>
retryVars == <<attempt, lastError, rpc, history, waits, outcome, returned,
               thrown>>
simVars == <<wine1, wine2, similarity, simDone>>
dedupVars == <<results, unique, dedupDone>>
ratingVars == <<rating, source, normalized, ratingDone>>
searchVars == <<options, cards, collected, searchResults, spc, vivinoFailed>>
fieldVars == <<cellar, checkYear, ap, lastReq>>
cascadeVars == <<wineRows, memories, images, food_pairings, slot_wine,
                 enforced, nextWine, nextRow, lastDelete>>
routingVars == <<pairings, nextPairing, exchange>>
consumeVars == <<target, targetSlot, consumePc, seen, requestDate, response,
                 dateWrites>>
regionVars == <<regionArg, regionPc, regionOnce, regionTwice>>
memoryVars == <<memoryTable, imageTable, migrated, nextMemory, memoryOp>>
pageVars == <<vPc, vAttempt, page, openPages, closeSettled, closeFailed,
              pagesMade, pending, vOutcome>>
vars == <<dbVars, apiVars, retryVars, simVars, dedupVars, ratingVars,
          searchVars, fieldVars, cascadeVars, routingVars, consumeVars,
          regionVars, memoryVars, pageVars>>
\* what the steps of one component leave alone
nonDbVars == <<apiVars, retryVars, simVars, dedupVars, ratingVars,
   searchVars, fieldVars,
   cascadeVars, routingVars, consumeVars,
   regionVars, memoryVars, pageVars>>
nonApiVars == <<dbVars, retryVars, simVars, dedupVars, ratingVars,
   searchVars, fieldVars,
   cascadeVars, routingVars, consumeVars,
   regionVars, memoryVars, pageVars>>
nonRetryVars == <<dbVars, apiVars, simVars, dedupVars, ratingVars,
   searchVars, fieldVars,
   cascadeVars, routingVars, consumeVars,
   regionVars, memoryVars, pageVars>>
nonSimVars == <<dbVars, apiVars, retryVars, dedupVars, ratingVars,
   searchVars, fieldVars,
   cascadeVars, routingVars, consumeVars,
   regionVars, memoryVars, pageVars>>
nonDedupVars == <<dbVars, apiVars, retryVars, simVars, ratingVars,
   searchVars, fieldVars,
   cascadeVars, routingVars, consumeVars,
   regionVars, memoryVars, pageVars>>
nonRatingVars == <<dbVars, apiVars, retryVars, simVars, dedupVars,
   searchVars, fieldVars,
   cascadeVars, routingVars, consumeVars,
   regionVars, memoryVars, pageVars>>
nonSearchVars == <<dbVars, apiVars, retryVars, simVars, dedupVars,
                   ratingVars, fieldVars,
   cascadeVars, routingVars, consumeVars,
   regionVars, memoryVars, pageVars>>
nonFieldVars == <<dbVars, apiVars, retryVars, simVars, dedupVars,
                  ratingVars, searchVars,
   cascadeVars, routingVars, consumeVars,
   regionVars, memoryVars, pageVars>>
nonCascadeVars == <<dbVars, apiVars, retryVars, simVars, dedupVars,
                    ratingVars, searchVars, fieldVars, routingVars, consumeVars,
   regionVars, memoryVars, pageVars>>
nonRoutingVars == <<dbVars, apiVars, retryVars, simVars, dedupVars,
                    ratingVars, searchVars, fieldVars, cascadeVars, consumeVars,
   regionVars, memoryVars, pageVars>>
nonConsumeVars == <<dbVars, apiVars, retryVars, simVars, dedupVars,
                    ratingVars, searchVars, fieldVars, cascadeVars,
                    routingVars,
   regionVars, memoryVars, pageVars>>
nonRegionVars == <<dbVars, apiVars, retryVars, simVars, dedupVars,
                   ratingVars, searchVars, fieldVars, cascadeVars,
                   routingVars, consumeVars, memoryVars, pageVars>>
nonMemoryVars == <<dbVars, apiVars, retryVars, simVars, dedupVars,
                   ratingVars, searchVars, fieldVars, cascadeVars,
                   routingVars, consumeVars, regionVars, pageVars>>
nonPageVars == <<dbVars, apiVars, retryVars, simVars, dedupVars,
                 ratingVars, searchVars, fieldVars, cascadeVars,
                 routingVars, consumeVars, regionVars, memoryVars>>

(***************************************************************************)
(* Common values                                                           *)
(***************************************************************************)
NULL == "null"            \* SQL NULL / JavaScript null
UNDEF == "undefined"      \* a field that is absent from a request body

(***************************************************************************)
(* DATABASE: wines and rack_slots                                          *)
(***************************************************************************)
MaxWines == 1                     \* wines ever created in a run
NoWine == 0                       \* rack_slots.wine_id IS NULL
WineIds == 1..MaxWines            \* uuidv4(): a fresh id for every create
SlotIds == {"A1", "B2"}           \* the rows of rack_slots
Statuses == {"Available", "Consumed", "Reserved"}
NOW == "now"                      \* new Date()
DateInputs == {"d1"}              \* a date carried by a request

\* String.prototype.trim on the strings the request bodies carry
trim(s) ==
  IF s = " A1 " THEN "A1" ELSE IF s = " d1 " THEN "d1"
  ELSE IF s = " brie " THEN "brie" ELSE s

\* request bodies of PUT /api/wines/:id, restricted to the fields tracked here
PutBodies ==
  [ rack_slot : {UNDEF, NULL, "A1", " A1 "},
    consumption_status : {UNDEF, "Available", "Consumed", "Reserved", "Drunk"},
    date_consumed : {UNDEF, NULL} \cup DateInputs ]

\* request bodies of POST /api/wines
PostBodies == [ name : {"", "Merlot"}, rack_slot : {UNDEF, " A1 "} ]

EmptySlot == [wine_id |-> NoWine, is_occupied |-> FALSE]

\* RackSlotModel.clearSlotByWineId: every row with wine_id = wineId is emptied
clearSlotByWineId(slots, wineId) ==
  [s \in SlotIds |-> IF slots[s].wine_id = wineId THEN EmptySlot ELSE slots[s]]

\* RackSlotModel.assignWineToSlot: UPDATE ... WHERE slot_id = slotId
assignWineToSlot(slots, slotId, wineId) ==
  [slots EXCEPT ![slotId] = [wine_id |-> wineId, is_occupied |-> TRUE]]

\* RackSlotModel.clearSlot
clearSlot(slots, slotId) == [slots EXCEPT ![slotId] = EmptySlot]

\* the columns an update statement sets: those present in updateData
applyUpdate(row, updateData) ==
  [f \in DOMAIN row |-> IF updateData[f] = UNDEF THEN row[f] ELSE updateData[f]]

\* variant of updateDataOf that keeps the rack_slot carried by the request
updateDataOf_KeepRackSlot(updates) == updates

\* updateData of WineModel.update: a status of Consumed forces rack_slot to null
updateDataOf(updates) ==
  IF updates.consumption_status = "Consumed"
    THEN [updates EXCEPT !.rack_slot = NULL]
    ELSE updates

\* WineModel.update: the wines table after the call (the id may match no row)
update(ws, id, updates) ==
  [w \in DOMAIN ws |->
     IF w = id THEN applyUpdate(ws[w], updateDataOf(updates)) ELSE ws[w]]

\* WineModel.update: the rack_slots table after the call
updateSlots(slots, id, updates) ==
  IF updates.consumption_status = "Consumed"
    THEN clearSlotByWineId(slots, id)
    ELSE slots

\* WineModel.markConsumed: the wines table after the call
markConsumed(ws, id, consumedDate) ==
  [w \in DOMAIN ws |->
     IF w = id
       THEN [ws[w] EXCEPT !.consumption_status = "Consumed",
                          !.date_consumed =
                             IF consumedDate = UNDEF THEN NOW ELSE consumedDate,
                          !.rack_slot = NULL]
       ELSE ws[w]]

\* WineModel.create: insert with the column defaults of the wines table
create(ws, id, wineData) ==
  ws @@ (id :> [consumption_status |-> "Available",
                rack_slot |-> IF wineData.rack_slot = UNDEF THEN NULL
                              ELSE wineData.rack_slot,
                date_consumed |-> NULL])

\* WineModel.delete: DELETE FROM wines WHERE id = ...
delete(ws, id) == [w \in DOMAIN ws \ {id} |-> ws[w]]

\* rack_slots.wine_id REFERENCES wines(id) ON DELETE SET NULL: acts only when
\* the connection enforces foreign keys; only wine_id is set to NULL
onDeleteSetNull(slots, id) ==
  IF foreign_keys
    THEN [s \in SlotIds |->
            IF slots[s].wine_id = id
              THEN [slots[s] EXCEPT !.wine_id = NoWine] ELSE slots[s]]
    ELSE slots

Op(op, id, code, consumed, rack) ==
  [op |-> op, id |-> id, code |-> code, consumed |-> consumed, rack |-> rack]

\* the database after the migrations; whether the SQLite connection enforces
\* foreign keys is a property of the build that the sources do not set
DbStart(fk) ==
  /\ wines = <<>>
  /\ rack_slots = [s \in SlotIds |-> EmptySlot]
  /\ nextId = 1
  /\ foreign_keys = fk
  /\ lastOp = Op("none", NoWine, 0, FALSE, FALSE)

DbInit == \E fk \in BOOLEAN : DbStart(fk)

\* router.post('/'): validation, then WineModel.create
PostWine(body) ==
  /\ nextId <= MaxWines
  /\ IF body.name = ""
       THEN /\ lastOp' = Op("POST", NoWine, 400, FALSE, FALSE)
            /\ UNCHANGED <<wines, nextId>>
       ELSE /\ wines' = create(wines, nextId,
                          [rack_slot |-> IF body.rack_slot = UNDEF THEN UNDEF
                                         ELSE trim(body.rack_slot)])
            /\ nextId' = nextId + 1
            /\ lastOp' = Op("POST", nextId, 201, FALSE, body.rack_slot # UNDEF)
  /\ UNCHANGED <<rack_slots, foreign_keys>>
  /\ UNCHANGED nonDbVars

\* the allowedFields loop of router.put('/:id'): strings are trimmed
putUpdateData(body) ==
  [body EXCEPT !.rack_slot = trim(body.rack_slot)]

\* router.put('/:id'): 404, validation, then WineModel.update
PutWine(id, body) ==
  /\ IF id \notin DOMAIN wines
       THEN /\ lastOp' = Op("PUT", id, 404, FALSE, FALSE)
            /\ UNCHANGED <<wines, rack_slots>>
       ELSE IF body.consumption_status # UNDEF
               /\ body.consumption_status \notin Statuses
         THEN /\ lastOp' = Op("PUT", id, 400, FALSE, FALSE)
              /\ UNCHANGED <<wines, rack_slots>>
         ELSE /\ rack_slots' = updateSlots(rack_slots, id, putUpdateData(body))
              /\ wines' = update(wines, id, putUpdateData(body))
              /\ lastOp' = Op("PUT", id, 200,
                              body.consumption_status = "Consumed",
                              body.rack_slot \notin {UNDEF, NULL})
  /\ UNCHANGED <<nextId, foreign_keys>>
  /\ UNCHANGED nonDbVars

\* variant of alreadyConsumed: the status is not looked at
alreadyConsumed_Never(ws, id) == FALSE

\* wine.consumption_status === 'Consumed'
alreadyConsumed(ws, id) == ws[id].consumption_status = "Consumed"

\* router.post('/:id/consume'): 404, 400 when already consumed, markConsumed
PostConsume(id, consumed_date) ==
  /\ IF id \notin DOMAIN wines
       THEN /\ lastOp' = Op("CONSUME", id, 404, FALSE, FALSE)
            /\ UNCHANGED <<wines, rack_slots>>
       ELSE IF alreadyConsumed(wines, id)
         THEN /\ lastOp' = Op("CONSUME", id, 400, FALSE, FALSE)
              /\ UNCHANGED <<wines, rack_slots>>
         ELSE /\ rack_slots' = clearSlotByWineId(rack_slots, id)
              /\ wines' = markConsumed(wines, id, consumed_date)
              /\ lastOp' = Op("CONSUME", id, 200, TRUE, FALSE)
  /\ UNCHANGED <<nextId, foreign_keys>>
  /\ UNCHANGED nonDbVars

\* router.delete('/:id'): 404, else WineModel.delete and the foreign key action
DeleteWine(id) ==
  /\ IF id \notin DOMAIN wines
       THEN /\ lastOp' = Op("DELETE", id, 404, FALSE, FALSE)
            /\ UNCHANGED <<wines, rack_slots>>
       ELSE /\ wines' = delete(wines, id)
            /\ rack_slots' = onDeleteSetNull(rack_slots, id)
            /\ lastOp' = Op("DELETE", id, 204, FALSE, FALSE)
  /\ UNCHANGED <<nextId, foreign_keys>>
  /\ UNCHANGED nonDbVars

\* a call of RackSlotModel.assignWineToSlot; with foreign keys enforced the
\* update is rejected when wineId matches no wine
AssignWineToSlot(slotId, wineId) ==
  /\ IF foreign_keys /\ wineId \notin DOMAIN wines
       THEN /\ lastOp' = Op("ASSIGN", wineId, 500, FALSE, FALSE)
            /\ UNCHANGED rack_slots
       ELSE /\ rack_slots' = assignWineToSlot(rack_slots, slotId, wineId)
            /\ lastOp' = Op("ASSIGN", wineId, 200, FALSE, FALSE)
  /\ UNCHANGED <<wines, nextId, foreign_keys>>
  /\ UNCHANGED nonDbVars

\* a call of RackSlotModel.clearSlot
ClearSlot(slotId) ==
  /\ rack_slots' = clearSlot(rack_slots, slotId)
  /\ lastOp' = Op("CLEAR", NoWine, 200, FALSE, FALSE)
  /\ UNCHANGED <<wines, nextId, foreign_keys>>
  /\ UNCHANGED nonDbVars

DbNext ==
  \/ \E body \in PostBodies : PostWine(body)
  \/ \E id \in WineIds, body \in PutBodies : PutWine(id, body)
  \/ \E id \in WineIds, d \in {UNDEF} \cup DateInputs : PostConsume(id, d)
  \/ \E id \in WineIds : DeleteWine(id)
  \/ \E s \in SlotIds, id \in WineIds : AssignWineToSlot(s, id)
  \/ \E s \in SlotIds : ClearSlot(s)

\* C1: after WineModel.markConsumed(id), or WineModel.update(id, u) with
\* u.consumption_status = 'Consumed', on an existing wine, the wine's rack_slot is
\* null, no rack_slots row has wine_id = id, and every row that referenced the
\* wine is empty (wine_id null, is_occupied false), also when u carries a
\* rack_slot.
C1_ConsumedClearsRackSlot ==
  [][ (lastOp'.op \in {"PUT", "CONSUME"} /\ lastOp'.code = 200
         /\ lastOp'.consumed)
      => /\ wines'[lastOp'.id].rack_slot = NULL
         /\ \A s \in SlotIds : rack_slots'[s].wine_id # lastOp'.id
         /\ \A s \in SlotIds : rack_slots[s].wine_id = lastOp'.id
                                  => rack_slots'[s] = EmptySlot ]_vars

\* C1's case: an update to Consumed whose body carried a rack_slot has succeeded
C1_Witness ==
  /\ lastOp.op = "PUT" /\ lastOp.code = 200 /\ lastOp.consumed /\ lastOp.rack
  /\ wines[lastOp.id].consumption_status = "Consumed"

\* C2: in every state reachable through create, update, consume and delete
\* requests, no wine whose consumption_status is 'Consumed' has a non-null
\* rack_slot.
C2_ConsumedWineHasNoRackSlot ==
  \A w \in DOMAIN wines :
     wines[w].consumption_status = "Consumed" => wines[w].rack_slot = NULL

(***************************************************************************)
(* WINE API SERVICE: rateLimit, getBrowser / closeBrowser, searchWine       *)
(* Requests are handled concurrently on one event loop: a handler runs     *)
(* until its next await, and the steps below are those stretches.          *)
(***************************************************************************)
RATE_LIMIT_DELAY == 2000          \* ms
MaxRequests == 2                  \* concurrent searchWine calls in a run
MaxTime == 6000                   \* the clock stops here (ms)
MaxCleanups == 1                  \* calls of cleanup() in a run
Requests == 1..MaxRequests
TimeSteps == {500, 1000}          \* how far the clock moves between events
NoBrowser == 0                    \* this.browser = null

ApiInit ==
  /\ now = RATE_LIMIT_DELAY       \* Date.now() is far past the epoch
  /\ lastRequestTime = 0
  /\ requestCount = 0
  /\ releaseGap = RATE_LIMIT_DELAY
  /\ browser = NoBrowser
  /\ launched = 0
  /\ live = {}
  /\ pc = [p \in Requests |-> "idle"]
  /\ wakeAt = [p \in Requests |-> 0]
  /\ held = [p \in Requests |-> NoBrowser]
  /\ cleanupPc = "idle"
  /\ closing = NoBrowser
  /\ cleanups = 0

\* the state a request is in after rateLimit resolves
afterRateLimit(at) == IF at \in {"idle", "wait1"} THEN "browser" ELSE "done"

\* rateLimit, the lines after the wait: stamp the release, count the request
release ==
  /\ lastRequestTime' = now
  /\ requestCount' = requestCount + 1
  /\ releaseGap' = now - lastRequestTime

\* rateLimit up to its await: called first by performVivinoSearch ("idle"),
\* then by searchWineApi ("api")
RateLimit(p) ==
  /\ pc[p] \in {"idle", "api"}
  /\ LET timeSinceLastRequest == now - lastRequestTime IN
       IF timeSinceLastRequest < RATE_LIMIT_DELAY
         THEN /\ pc' = [pc EXCEPT ![p] = IF pc[p] = "idle" THEN "wait1"
                                         ELSE "wait2"]
              /\ wakeAt' = [wakeAt EXCEPT ![p] =
                              now + (RATE_LIMIT_DELAY - timeSinceLastRequest)]
              /\ UNCHANGED <<lastRequestTime, requestCount, releaseGap>>
         ELSE /\ release
              /\ pc' = [pc EXCEPT ![p] = afterRateLimit(pc[p])]
              /\ UNCHANGED wakeAt
  /\ UNCHANGED <<now, browser, launched, live, held, cleanupPc, closing,
                 cleanups>>
  /\ UNCHANGED nonApiVars

\* the setTimeout of rateLimit fires: the timer is due, the call goes on
RateLimitWake(p) ==
  /\ pc[p] \in {"wait1", "wait2"}
  /\ now >= wakeAt[p]
  /\ release
  /\ pc' = [pc EXCEPT ![p] = afterRateLimit(pc[p])]
  /\ UNCHANGED <<now, wakeAt, browser, launched, live, held, cleanupPc,
                 closing, cleanups>>
  /\ UNCHANGED nonApiVars

\* getBrowser up to its await: launch when this.browser is null
GetBrowser(p) ==
  /\ pc[p] = "browser"
  /\ IF browser = NoBrowser
       THEN /\ pc' = [pc EXCEPT ![p] = "launch"]
            /\ UNCHANGED held
       ELSE /\ pc' = [pc EXCEPT ![p] = "scrape"]
            /\ held' = [held EXCEPT ![p] = browser]
  /\ UNCHANGED <<now, lastRequestTime, requestCount, releaseGap, browser,
                 launched, live, wakeAt, cleanupPc, closing, cleanups>>
  /\ UNCHANGED nonApiVars

\* puppeteer.launch resolves: this.browser = the new browser
LaunchDone(p) ==
  /\ pc[p] = "launch"
  /\ launched' = launched + 1
  /\ live' = live \cup {launched + 1}
  /\ browser' = launched + 1
  /\ held' = [held EXCEPT ![p] = launched + 1]
  /\ pc' = [pc EXCEPT ![p] = "scrape"]
  /\ UNCHANGED <<now, lastRequestTime, requestCount, releaseGap, wakeAt,
                 cleanupPc, closing, cleanups>>
  /\ UNCHANGED nonApiVars

\* puppeteer.launch rejects: performVivinoSearch throws, searchWine goes on
LaunchFail(p) ==
  /\ pc[p] = "launch"
  /\ pc' = [pc EXCEPT ![p] = "api"]
  /\ UNCHANGED <<now, lastRequestTime, requestCount, releaseGap, browser,
                 launched, live, wakeAt, held, cleanupPc, closing, cleanups>>
  /\ UNCHANGED nonApiVars

\* the page work of performVivinoSearch ends (results or an error);
\* searchWine then calls searchWineApi
Scrape(p) ==
  /\ pc[p] = "scrape"
  /\ pc' = [pc EXCEPT ![p] = "api"]
  /\ held' = [held EXCEPT ![p] = NoBrowser]
  /\ UNCHANGED <<now, lastRequestTime, requestCount, releaseGap, browser,
                 launched, live, wakeAt, cleanupPc, closing, cleanups>>
  /\ UNCHANGED nonApiVars

\* cleanup -> closeBrowser up to its await
CleanupBegin ==
  /\ cleanupPc = "idle"
  /\ cleanups < MaxCleanups
  /\ cleanups' = cleanups + 1
  /\ IF browser # NoBrowser
       THEN cleanupPc' = "closing" /\ closing' = browser
       ELSE UNCHANGED <<cleanupPc, closing>>
  /\ UNCHANGED <<now, lastRequestTime, requestCount, releaseGap, browser,
                 launched, live, pc, wakeAt, held>>
  /\ UNCHANGED nonApiVars

\* browser.close() resolves: this.browser = null
CleanupEnd ==
  /\ cleanupPc = "closing"
  /\ live' = live \ {closing}
  /\ browser' = NoBrowser
  /\ cleanupPc' = "idle"
  /\ closing' = NoBrowser
  /\ UNCHANGED <<now, lastRequestTime, requestCount, releaseGap, launched,
                 pc, wakeAt, held, cleanups>>
  /\ UNCHANGED nonApiVars

\* time passes
Tick(d) ==
  /\ now + d <= MaxTime
  /\ now' = now + d
  /\ UNCHANGED <<lastRequestTime, requestCount, releaseGap, browser, launched,
                 live, pc, wakeAt, held, cleanupPc, closing, cleanups>>
  /\ UNCHANGED nonApiVars

ApiNext ==
  \/ \E p \in Requests : RateLimit(p)
  \/ \E p \in Requests : RateLimitWake(p)
  \/ \E p \in Requests : GetBrowser(p)
  \/ \E p \in Requests : LaunchDone(p)
  \/ \E p \in Requests : LaunchFail(p)
  \/ \E p \in Requests : Scrape(p)
  \/ CleanupBegin
  \/ CleanupEnd
  \/ \E d \in TimeSteps : Tick(d)

\* C3: any two calls that pass rateLimit, also on behalf of concurrently
\* handled requests, are released (write lastRequestTime) at least
\* RATE_LIMIT_DELAY ms apart.  The clock is monotone, so it is enough that every
\* release is that far from the release before it.
C3_ReleasesAtLeastDelayApart == releaseGap >= RATE_LIMIT_DELAY

\* C10: at most one browser is live at any time, and every live browser is
\* referenced by this.browser (or is the one closeBrowser is closing), also when
\* several searches call getBrowser concurrently.
C10_AtMostOneBrowser ==
  /\ Cardinality(live) <= 1
  /\ \A b \in live : b = browser \/ b = closing

(***************************************************************************)
(* RETRY: retryWithExponentialBackoff and isNonRetryableError              *)
(***************************************************************************)
MAX_RETRIES == 3
RETRY_DELAYS == <<1000, 2000, 4000>>

NavigationTimeout == "Navigation timeout of 45000 ms exceeded"
\* the errors an operation may reject with: error.code, error.status (0 when
\* the error has none) and error.message
Errors ==
  [ code : {NULL, "ENOTFOUND", "ECONNREFUSED", "ETIMEDOUT"},
    status : {0, 403, 404, 500},
    message : {NavigationTimeout, "net::ERR_FAILED"} ]
Values == {"results"}             \* what a successful operation returns

\* error?.message?.includes('Navigation timeout')
includesNavigationTimeout(message) == message = NavigationTimeout

\* variant of isNonRetryableError without the 403 / 404 test
isNonRetryableError_NoStatus(error) == error.code \in {"ENOTFOUND", "ECONNREFUSED"}

\* isNonRetryableError: the tests in the order the code makes them
isNonRetryableError(error) ==
  IF error.code = "ENOTFOUND" \/ error.code = "ECONNREFUSED" THEN TRUE
  ELSE IF includesNavigationTimeout(error.message) THEN FALSE
  ELSE IF error.status = 404 \/ error.status = 403 THEN TRUE
  ELSE FALSE

\* variant of the loop condition that is off by one
loopContinues_OffByOne(a) == a <= MAX_RETRIES

\* the loop condition: attempt < this.MAX_RETRIES
loopContinues(a) == a < MAX_RETRIES

\* variant of the delay that always waits the first entry
delayOf_Fixed(a) == RETRY_DELAYS[1]

\* this.RETRY_DELAYS[attempt], attempt counted from 0
delayOf(a) == RETRY_DELAYS[a + 1]

Ok(v) == [ok |-> TRUE, value |-> v, error |-> <<>>]
Failed(e) == [ok |-> FALSE, value |-> NULL, error |-> <<e>>]

RetryInit ==
  /\ attempt = 0
  /\ lastError = <<>>
  /\ rpc = "idle"
  /\ history = <<>>
  /\ waits = <<>>
  /\ outcome = "none"
  /\ returned = NULL
  /\ thrown = <<>>

\* the head of the for loop at `a`: run the body, or fall out of the loop and
\* throw lastError
loopHead(a, err) ==
  /\ attempt' = a
  /\ IF loopContinues(a)
       THEN rpc' = "await" /\ UNCHANGED <<outcome, thrown>>
       ELSE rpc' = "done" /\ outcome' = "throw" /\ thrown' = err

\* retryWithExponentialBackoff is called: attempt = 0, operation() is invoked
Call ==
  /\ rpc = "idle"
  /\ loopHead(0, lastError)
  /\ UNCHANGED <<lastError, history, waits, returned>>
  /\ UNCHANGED nonRetryVars

\* operation() resolves: return await operation()
OperationResolves(v) ==
  /\ rpc = "await"
  /\ history' = Append(history, Ok(v))
  /\ rpc' = "done"
  /\ outcome' = "return"
  /\ returned' = v
  /\ UNCHANGED <<attempt, lastError, waits, thrown>>
  /\ UNCHANGED nonRetryVars

\* operation() rejects: the catch block
OperationRejects(error) ==
  /\ rpc = "await"
  /\ history' = Append(history, Failed(error))
  /\ lastError' = <<error>>
  /\ IF isNonRetryableError(error)
       THEN /\ rpc' = "done" /\ outcome' = "throw" /\ thrown' = <<error>>
            /\ UNCHANGED <<attempt, waits>>
       ELSE IF attempt < MAX_RETRIES - 1
         THEN /\ waits' = Append(waits, delayOf(attempt))
              /\ rpc' = "sleep"
              /\ UNCHANGED <<attempt, outcome, thrown>>
         ELSE /\ loopHead(attempt + 1, <<error>>)
              /\ UNCHANGED waits
  /\ UNCHANGED returned
  /\ UNCHANGED nonRetryVars

\* the setTimeout of the backoff fires: attempt++ and the next iteration
TimerFires ==
  /\ rpc = "sleep"
  /\ loopHead(attempt + 1, lastError)
  /\ UNCHANGED <<lastError, history, waits, returned>>
  /\ UNCHANGED nonRetryVars

RetryNext ==
  \/ Call
  \/ \E v \in Values : OperationResolves(v)
  \/ \E e \in Errors : OperationRejects(e)
  \/ TimerFires

\* the error of the k-th invocation of the operation
errorOf(k) == history[k].error[1]

\* C4: the operation is invoked at most MAX_RETRIES = 3 times; the first attempt
\* that succeeds ends the call, which returns that attempt's value; when all 3
\* attempts fail the call throws the error of the last attempt; and a call that
\* has started always finishes.
C4_Safety ==
  /\ Len(history) <= MAX_RETRIES
  /\ \A i \in 1..Len(history) :
        history[i].ok => /\ i = Len(history)
                         /\ rpc = "done" /\ outcome = "return"
                         /\ returned = history[i].value
  /\ outcome = "return" => Len(history) >= 1 /\ history[Len(history)].ok
  /\ (Len(history) = MAX_RETRIES /\ \A i \in 1..MAX_RETRIES : ~history[i].ok)
       => /\ rpc = "done" /\ outcome = "throw"
          /\ thrown = history[MAX_RETRIES].error

C4_RetryBoundedAndFinishes ==
  [](C4_Safety) /\ ((rpc # "idle") ~> (rpc = "done"))

\* C4's case: three attempts failed with retryable errors and the last error
\* was thrown
C4_Witness ==
  /\ rpc = "done" /\ outcome = "throw" /\ Len(history) = MAX_RETRIES
  /\ \A i \in 1..MAX_RETRIES :
        ~history[i].ok /\ ~isNonRetryableError(errorOf(i))

\* the errors C5 calls terminal
ClaimedTerminal(e) ==
  e.code \in {"ENOTFOUND", "ECONNREFUSED"} \/ e.status \in {403, 404}

\* C5 as stated: an error whose code is ENOTFOUND or ECONNREFUSED, or whose
\* status is 403 or 404, is rethrown right after the failing attempt and the
\* operation is never invoked again, whatever its message.
C5_TerminalWhateverTheMessage ==
  \A i \in 1..Len(history) :
     (~history[i].ok /\ ClaimedTerminal(errorOf(i)))
       => /\ i = Len(history)
          /\ rpc = "done" /\ outcome = "throw" /\ thrown = history[i].error

\* the errors that are terminal: a 403 / 404 only when the message does not
\* contain 'Navigation timeout'
AmendedTerminal(e) ==
  \/ e.code \in {"ENOTFOUND", "ECONNREFUSED"}
  \/ e.status \in {403, 404} /\ e.message # NavigationTimeout

\* C5 amended: an error whose code is ENOTFOUND or ECONNREFUSED (whatever its
\* other fields), or whose status is 403 or 404 and whose message does not
\* contain 'Navigation timeout', is rethrown right after the failing attempt
\* and the operation is never invoked again.
C5_TerminalErrorsRethrown ==
  \A i \in 1..Len(history) :
     (~history[i].ok /\ AmendedTerminal(errorOf(i)))
       => /\ i = Len(history)
          /\ rpc = "done" /\ outcome = "throw" /\ thrown = history[i].error

\* C5's case: a first attempt failed with a bare 404 and the call has thrown it
C5_Witness ==
  /\ rpc = "done" /\ outcome = "throw" /\ Len(history) = 1
  /\ ~history[1].ok
  /\ errorOf(1).status = 404 /\ errorOf(1).code = NULL

\* C6 as stated: the wait that follows the k-th failed retryable attempt is
\* RETRY_DELAYS[k], for k = 1, 2, 3.
C6_WaitAfterEveryFailure ==
  \A k \in 1..MAX_RETRIES :
     (k <= Len(history) /\ ~history[k].ok /\ ~isNonRetryableError(errorOf(k)))
       => Len(waits) >= k /\ waits[k] = RETRY_DELAYS[k]

\* C6 amended: the wait that follows the k-th failed retryable attempt is
\* RETRY_DELAYS[k] for k = 1, 2; no wait follows the third failed attempt (the
\* call throws at once), so the 4000 ms entry is never used.
C6_WaitsFollowSchedule ==
  /\ Len(waits) <= MAX_RETRIES - 1
  /\ \A k \in 1..Len(history) :
        (~history[k].ok /\ ~isNonRetryableError(errorOf(k)))
          => IF k < MAX_RETRIES
               THEN Len(waits) >= k /\ waits[k] = RETRY_DELAYS[k]
               ELSE Len(waits) = MAX_RETRIES - 1 /\ rpc = "done"
                    /\ outcome = "throw"

\* C6's case: two waits were made and the third attempt failed as well
C6_Witness ==
  /\ Len(waits) = 2 /\ Len(history) = MAX_RETRIES
  /\ ~history[MAX_RETRIES].ok
  /\ ~isNonRetryableError(errorOf(MAX_RETRIES))

(***************************************************************************)
(* NORMALIZER: stringSimilarity, calculateSimilarity, removeDuplicates      *)
(* Strings are sequences of characters.  The scores are JavaScript numbers *)
(* in the code; here they are exact fractions [n, d] in lowest terms.       *)
(***************************************************************************)
RECURSIVE gcd(_, _)
gcd(a, b) == IF b = 0 THEN a ELSE gcd(b, a % b)

\* the fraction n / d (d > 0, n >= 0) in lowest terms
Frac(n, d) == LET g == gcd(n, d) IN [n |-> n \div g, d |-> d \div g]
Zero == Frac(0, 1)
One == Frac(1, 1)
Plus(x, y) == Frac(x.n * y.d + y.n * x.d, x.d * y.d)
Times(x, y) == Frac(x.n * y.n, x.d * y.d)
Over(x, y) == Frac(x.n * y.d, x.d * y.n)
Greater(x, y) == x.n * y.d > y.n * x.d
AtMost(x, y) == x.n * y.d <= y.n * x.d

Max2(a, b) == IF a >= b THEN a ELSE b
Min2(a, b) == IF a <= b THEN a ELSE b
MinOf(S) == CHOOSE x \in S : \A y \in S : x <= y

UpperCase == <<"A", "B", "C", "D", "E", "F", "G", "H", "I", "J", "K", "L", "M",
               "N", "O", "P", "Q", "R", "S", "T", "U", "V", "W", "X", "Y", "Z">>
LowerCase == <<"a", "b", "c", "d", "e", "f", "g", "h", "i", "j", "k", "l", "m",
               "n", "o", "p", "q", "r", "s", "t", "u", "v", "w", "x", "y", "z">>
Digits == {"0", "1", "2", "3", "4", "5", "6", "7", "8", "9"}

lowerChar(c) ==
  IF \E i \in 1..26 : UpperCase[i] = c
    THEN LowerCase[CHOOSE i \in 1..26 : UpperCase[i] = c] ELSE c
upperChar(c) ==
  IF \E i \in 1..26 : LowerCase[i] = c
    THEN UpperCase[CHOOSE i \in 1..26 : LowerCase[i] = c] ELSE c

\* String.prototype.toLowerCase
toLowerCase(str) == [i \in 1..Len(str) |-> lowerChar(str[i])]

\* String.prototype.trim
RECURSIVE trimStart(_)
trimStart(str) ==
  IF str # <<>> /\ Head(str) = " " THEN trimStart(Tail(str)) ELSE str
RECURSIVE trimEnd(_)
trimEnd(str) ==
  IF str # <<>> /\ str[Len(str)] = " "
    THEN trimEnd(SubSeq(str, 1, Len(str) - 1)) ELSE str
trimString(str) == trimEnd(trimStart(str))

\* the "find matches" loop of stringSimilarity from index i on: the matched
\* positions of s1 and of s2 (positions count from 1 here)
RECURSIVE findMatches(_, _, _, _, _, _)
findMatches(s1, s2, matchWindow, i, s1Matches, s2Matches) ==
  IF i > Len(s1) THEN [s1 |-> s1Matches, s2 |-> s2Matches]
  ELSE LET start == Max2(1, i - matchWindow)
           end == Min2(i + matchWindow, Len(s2))
           found == {j \in start..end : j \notin s2Matches /\ s1[i] = s2[j]}
       IN IF found = {}
            THEN findMatches(s1, s2, matchWindow, i + 1, s1Matches, s2Matches)
            ELSE findMatches(s1, s2, matchWindow, i + 1,
                             s1Matches \cup {i}, s2Matches \cup {MinOf(found)})

\* the k-th smallest member of a set of positions
RECURSIVE kth(_, _)
kth(S, k) == IF k = 1 THEN MinOf(S) ELSE kth(S \ {MinOf(S)}, k - 1)

\* the "find transpositions" loop: matched characters that differ, in order
transpositionsOf(s1, s2, m) ==
  Cardinality({k \in 1..Cardinality(m.s1) : s1[kth(m.s1, k)] # s2[kth(m.s2, k)]})

\* the Jaro-Winkler prefix loop: common prefix, at most 4 characters
RECURSIVE prefixOf(_, _, _)
prefixOf(s1, s2, i) ==
  IF i <= Min2(Min2(Len(s1), Len(s2)), 4) /\ s1[i] = s2[i]
    THEN 1 + prefixOf(s1, s2, i + 1) ELSE 0

\* jaro = (matches/len1 + matches/len2 + (matches - transpositions/2)/matches)/3
jaroOf(len1, len2, matches, transpositions) ==
  Frac(2 * matches * matches * len2 + 2 * matches * matches * len1
         + (2 * matches - transpositions) * len1 * len2,
       6 * matches * len1 * len2)

\* jaro + 0.1 * prefix * (1 - jaro)
winklerOf(jaro, prefix) ==
  Frac(10 * jaro.n + prefix * (jaro.d - jaro.n), 10 * jaro.d)

\* WineDataNormalizer.stringSimilarity
stringSimilarity(str1, str2) ==
  IF str1 = <<>> \/ str2 = <<>> THEN Zero
  ELSE LET s1 == trimString(toLowerCase(str1))
           s2 == trimString(toLowerCase(str2))
           matchWindow == (Max2(Len(s1), Len(s2)) \div 2) - 1
       IN IF s1 = s2 THEN One
          ELSE IF Len(s1) = 0 \/ Len(s2) = 0 THEN Zero
          ELSE IF matchWindow < 0 THEN Zero
          ELSE LET m == findMatches(s1, s2, matchWindow, 1, {}, {})
                   matches == Cardinality(m.s1)
               IN IF matches = 0 THEN Zero
                  ELSE winklerOf(jaroOf(Len(s1), Len(s2), matches,
                                        transpositionsOf(s1, s2, m)),
                                 prefixOf(s1, s2, 1))

NoVintage == 0                    \* vintage_year undefined

\* the weights of calculateSimilarity
NameWeight == Frac(4, 10)
VineyardWeight == Frac(3, 10)
VintageWeight == Frac(2, 10)
RegionWeight == Frac(1, 10)

\* score and factors of calculateSimilarity before the final division
scoreOf(w1, w2) ==
  LET base == Plus(Plus(Times(stringSimilarity(w1.name, w2.name), NameWeight),
                        Times(stringSimilarity(w1.vineyard, w2.vineyard),
                              VineyardWeight)),
                   Times(stringSimilarity(w1.region, w2.region), RegionWeight))
  IN IF w1.vintage_year # NoVintage /\ w2.vintage_year # NoVintage
       THEN Plus(base, Times(IF w1.vintage_year = w2.vintage_year
                               THEN One ELSE Zero, VintageWeight))
       ELSE base

factorsOf(w1, w2) ==
  LET base == Plus(Plus(NameWeight, VineyardWeight), RegionWeight)
  IN IF w1.vintage_year # NoVintage /\ w2.vintage_year # NoVintage
       THEN Plus(base, VintageWeight) ELSE base

\* variant of calculateSimilarity that does not divide by factors
calculateSimilarity_Unscaled(w1, w2) == scoreOf(w1, w2)

\* WineDataNormalizer.calculateSimilarity: score / factors
calculateSimilarity(w1, w2) == Over(scoreOf(w1, w2), factorsOf(w1, w2))

\* variant of isDuplicate whose threshold is not strict
isDuplicate_AtLeast(w1, w2) == ~Greater(Frac(8, 10), calculateSimilarity(w1, w2))

\* WineDataNormalizer.isDuplicate: similarity > 0.8
isDuplicate(w1, w2) == Greater(calculateSimilarity(w1, w2), Frac(8, 10))

\* the loop of removeDuplicates from index i on
RECURSIVE dedupFrom(_, _, _)
dedupFrom(ws, i, uniq) ==
  IF i > Len(ws) THEN uniq
  ELSE IF \E k \in 1..Len(uniq) : isDuplicate(ws[i], uniq[k])
         THEN dedupFrom(ws, i + 1, uniq)
         ELSE dedupFrom(ws, i + 1, Append(uniq, ws[i]))

\* WineDataNormalizer.removeDuplicates
removeDuplicates(ws) == dedupFrom(ws, 1, <<>>)

\* ---- one call of calculateSimilarity on a pair of results
MaxStrLen == 3                    \* longest generated name
Alphabet == {"a", "b"}
Strs(n) == UNION {[1..k -> Alphabet] : k \in 0..n}
SimNames == Strs(MaxStrLen) \cup {<<"A", "b">>, <<" ", "a", "b", " ">>}
SimWines1 ==
  [ name : SimNames, vineyard : {<<"x">>, <<"x", "y">>}, region : {<<"r">>},
    vintage_year : {NoVintage, 2019, 2020} ]
SimWines2 ==
  [ name : {<<>>, <<"a", "b">>, <<"b", "a">>},
    vineyard : {<<>>, <<"x">>}, region : {<<"r">>, <<"r", "s">>},
    vintage_year : {NoVintage, 2019} ]

SimInit ==
  /\ wine1 \in SimWines1
  /\ wine2 \in SimWines2
  /\ similarity = Zero
  /\ simDone = FALSE

SimIdle ==
  /\ wine1 = [name |-> <<>>, vineyard |-> <<>>, region |-> <<>>,
              vintage_year |-> NoVintage]
  /\ wine2 = wine1
  /\ similarity = Zero
  /\ simDone = FALSE

CalculateSimilarity ==
  /\ ~simDone
  /\ similarity' = calculateSimilarity(wine1, wine2)
  /\ simDone' = TRUE
  /\ UNCHANGED <<wine1, wine2>>
  /\ UNCHANGED nonSimVars

SimNext == CalculateSimilarity

\* the weighted sum C8 states, the vintage term being 1 when both results
\* have a vintage year and the years are equal
WeightedSum(w1, w2) ==
  Plus(Plus(Plus(Times(NameWeight, stringSimilarity(w1.name, w2.name)),
                 Times(VineyardWeight,
                       stringSimilarity(w1.vineyard, w2.vineyard))),
            Times(VintageWeight,
                  IF w1.vintage_year # NoVintage
                     /\ w1.vintage_year = w2.vintage_year
                    THEN One ELSE Zero)),
       Times(RegionWeight, stringSimilarity(w1.region, w2.region)))

InUnitInterval(x) == x.n >= 0 /\ x.d > 0 /\ AtMost(x, One)

\* C8 as stated: for every pair of results calculateSimilarity equals
\* 0.4*sim(name) + 0.3*sim(vineyard) + 0.2*[both vintage years equal]
\* + 0.1*sim(region), and lies in [0, 1].
C8_IsWeightedSum ==
  simDone => similarity = WeightedSum(wine1, wine2)
             /\ InUnitInterval(similarity)

\* C8 amended: when both results have a vintage year the score is that
\* weighted sum; when either has none the vintage term is left out and the
\* sum of the other three terms is divided by 0.8; the score lies in [0, 1].
C8_WeightedSumOverFactors ==
  simDone =>
    /\ similarity =
         IF wine1.vintage_year # NoVintage /\ wine2.vintage_year # NoVintage
           THEN WeightedSum(wine1, wine2)
           ELSE Over(WeightedSum(wine1, wine2), Frac(8, 10))
    /\ InUnitInterval(similarity)

\* C8's case: a pair with a missing vintage year whose score is strictly
\* between 0 and 1
C8_Witness ==
  /\ simDone
  /\ wine1.vintage_year = NoVintage /\ wine2.vintage_year # NoVintage
  /\ Greater(similarity, Zero) /\ Greater(One, similarity)

\* ---- one call of removeDuplicates on a list of results
MaxResults == 3                   \* longest list given to removeDuplicates
DedupWines ==
  [ name : {<<>>, <<"a", "a">>, <<"a", "b">>, <<"b", "b">>},
    vineyard : {<<"x">>}, region : {<<"r">>},
    vintage_year : {NoVintage, 2019, 2020} ]

DedupInit ==
  /\ results \in UNION {[1..k -> DedupWines] : k \in 0..MaxResults}
  /\ unique = <<>>
  /\ dedupDone = FALSE

DedupIdle ==
  /\ results = <<>>
  /\ unique = <<>>
  /\ dedupDone = FALSE

RemoveDuplicates ==
  /\ ~dedupDone
  /\ unique' = removeDuplicates(results)
  /\ dedupDone' = TRUE
  /\ UNCHANGED results
  /\ UNCHANGED nonDedupVars

DedupNext == RemoveDuplicates

\* the entries of ws at the positions in K, in order
RECURSIVE pick(_, _, _)
pick(ws, K, i) ==
  IF i > Len(ws) THEN <<>>
  ELSE IF i \in K THEN <<ws[i]>> \o pick(ws, K, i + 1)
       ELSE pick(ws, K, i + 1)

TooSimilar(w1, w2) == Greater(calculateSimilarity(w1, w2), Frac(8, 10))

\* C7: the list returned by removeDuplicates is a subsequence of its input
\* (the entries at some positions K, in order) in which no two entries have
\* calculateSimilarity > 0.8, and every dropped entry has similarity > 0.8
\* with an entry retained earlier in the list.
C7_RemoveDuplicates ==
  dedupDone =>
    \E K \in SUBSET (1..Len(results)) :
       /\ unique = pick(results, K, 1)
       /\ \A i \in K, j \in K :
             i # j => ~TooSimilar(results[i], results[j])
       /\ \A i \in (1..Len(results)) \ K :
             \E k \in K : k < i /\ TooSimilar(results[i], results[k])

\* C7's case: of three results the second was dropped as a duplicate of the
\* first, while the third, retained, is a duplicate of the dropped one only
C7_Witness ==
  /\ dedupDone /\ Len(results) = 3 /\ Len(unique) = 2
  /\ unique = <<results[1], results[3]>>
  /\ TooSimilar(results[3], results[2])

(***************************************************************************)
(* NORMALIZER: normalizeRating                                             *)
(* A rating is held in units of 1 / RatingScale.                           *)
(***************************************************************************)
RatingScale == 10                 \* resolution of the generated ratings
MaxRating == 101                  \* largest generated rating
Ratings == (0 - RatingScale)..(MaxRating * RatingScale)
Sources == {"vivino", "wine_api", "manual", UNDEF}
UndefinedRating == -1             \* return undefined

\* Math.round(n / d), d > 0
round(n, d) == (2 * n + d) \div (2 * d)

\* lo <= rating && rating <= hi
within(r, lo, hi) == r >= lo * RatingScale /\ r <= hi * RatingScale

\* variant of normalizeRating whose default branch never rescales
normalizeRating_NoRescale(r, src) ==
  IF r = 0 THEN UndefinedRating
  ELSE IF src = "vivino"
    THEN IF within(r, 1, 5) THEN round(r * 20, RatingScale)
         ELSE UndefinedRating
  ELSE IF within(r, 1, 100) THEN round(r, RatingScale)
  ELSE UndefinedRating

\* WineDataNormalizer.normalizeRating
normalizeRating(r, src) ==
  IF r = 0 THEN UndefinedRating
  ELSE IF src = "vivino"
    THEN IF within(r, 1, 5) THEN round(r * 20, RatingScale)
         ELSE UndefinedRating
  ELSE IF src = "wine_api"
    THEN IF within(r, 1, 100) THEN round(r, RatingScale)
         ELSE UndefinedRating
  ELSE IF within(r, 1, 5) THEN round(r * 20, RatingScale)
  ELSE IF within(r, 1, 100) THEN round(r, RatingScale)
  ELSE UndefinedRating

RatingInit ==
  /\ rating \in Ratings
  /\ source \in Sources
  /\ normalized = UndefinedRating
  /\ ratingDone = FALSE

RatingIdle ==
  /\ rating = 0
  /\ source = UNDEF
  /\ normalized = UndefinedRating
  /\ ratingDone = FALSE

NormalizeRating ==
  /\ ~ratingDone
  /\ normalized' = normalizeRating(rating, source)
  /\ ratingDone' = TRUE
  /\ UNCHANGED <<rating, source>>
  /\ UNCHANGED nonRatingVars

RatingNext == NormalizeRating

\* the result the auto-detection rule gives
AutoDetected(r) ==
  IF within(r, 1, 5) THEN round(r * 20, RatingScale)
  ELSE IF r > 5 * RatingScale /\ r <= 100 * RatingScale
    THEN round(r, RatingScale)
  ELSE UndefinedRating

InRatingRange(x) == x = UndefinedRating \/ (x >= 1 /\ x <= 100)

\* C9 as stated: for every rating r and every source, normalizeRating returns
\* round(r*20) when 1 <= r <= 5, round(r) when 5 < r <= 100 and undefined
\* otherwise; the result is undefined or within [1, 100].
C9_AutoDetectForEverySource ==
  ratingDone => normalized = AutoDetected(rating) /\ InRatingRange(normalized)

\* C9 amended: that rule holds for every source other than 'vivino' and
\* 'wine_api'; for 'vivino' the result is round(r*20) when 1 <= r <= 5 and
\* undefined otherwise; for 'wine_api' it is round(r) when 1 <= r <= 100 and
\* undefined otherwise; the result is always undefined or within [1, 100].
C9_ScalePerSource ==
  ratingDone =>
    /\ source \notin {"vivino", "wine_api"}
         => normalized = AutoDetected(rating)
    /\ source = "vivino"
         => normalized = IF within(rating, 1, 5)
                           THEN round(rating * 20, RatingScale)
                           ELSE UndefinedRating
    /\ source = "wine_api"
         => normalized = IF within(rating, 1, 100)
                           THEN round(rating, RatingScale)
                           ELSE UndefinedRating
    /\ InRatingRange(normalized)

\* C9's case: a rating of 4.5 from a source without a scale of its own became 90
C9_Witness ==
  /\ ratingDone /\ source = "manual"
  /\ 2 * rating = 9 * RatingScale /\ normalized = 90

(***************************************************************************)
(* NORMALIZER: the text fields                                             *)
(* A string is a sequence of characters.                                   *)
(***************************************************************************)
\* the regular expression class \w
isWordChar(c) ==
  \/ \E i \in 1..26 : UpperCase[i] = c \/ LowerCase[i] = c
  \/ c \in Digits \/ c = "_"

\* String.prototype.includes
includes(str, sub) ==
  \E i \in 0..(Len(str) - Len(sub)) : SubSeq(str, i + 1, i + Len(sub)) = sub

\* String.prototype.replace(/\s+/g, ' '): every run of spaces becomes one
RECURSIVE collapseSpaces(_)
collapseSpaces(str) ==
  IF Len(str) < 2 THEN str
  ELSE IF str[1] = " " /\ str[2] = " " THEN collapseSpaces(Tail(str))
  ELSE <<str[1]>> \o collapseSpaces(Tail(str))

\* String.prototype.split(','): the parts between the commas
RECURSIVE splitComma(_, _)
splitComma(str, part) ==
  IF str = <<>> THEN <<part>>
  ELSE IF Head(str) = "," THEN <<part>> \o splitComma(Tail(str), <<>>)
  ELSE splitComma(Tail(str), Append(part, Head(str)))

\* Array.prototype.join(', ')
RECURSIVE joinComma(_)
joinComma(parts) ==
  IF parts = <<>> THEN <<>>
  ELSE IF Len(parts) = 1 THEN parts[1]
  ELSE parts[1] \o <<",", " ">> \o joinComma(Tail(parts))

\* part.charAt(0).toUpperCase() + part.slice(1).toLowerCase()
capitalize(part) ==
  IF part = <<>> THEN <<>>
  ELSE <<upperChar(part[1])>> \o toLowerCase(Tail(part))

\* REGION_MAPPING, in the order of its keys
REGION_MAPPING == <<
  [key |-> <<"n", "a", "p", "a">>,
   value |-> <<"N", "a", "p", "a", " ", "V", "a", "l", "l", "e", "y", ",",
               " ", "C", "a", "l", "i", "f", "o", "r", "n", "i", "a">>],
  [key |-> <<"n", "a", "p", "a", " ", "v", "a", "l", "l", "e", "y">>,
   value |-> <<"N", "a", "p", "a", " ", "V", "a", "l", "l", "e", "y", ",",
               " ", "C", "a", "l", "i", "f", "o", "r", "n", "i", "a">>],
  [key |-> <<"n", "a", "p", "a", " ", "v", "a", "l", "l", "e", "y", ",",
             " ", "c", "a">>,
   value |-> <<"N", "a", "p", "a", " ", "V", "a", "l", "l", "e", "y", ",",
               " ", "C", "a", "l", "i", "f", "o", "r", "n", "i", "a">>],
  [key |-> <<"n", "a", "p", "a", ",", " ", "c", "a", "l", "i", "f", "o",
             "r", "n", "i", "a">>,
   value |-> <<"N", "a", "p", "a", " ", "V", "a", "l", "l", "e", "y", ",",
               " ", "C", "a", "l", "i", "f", "o", "r", "n", "i", "a">>],
  [key |-> <<"s", "o", "n", "o", "m", "a">>,
   value |-> <<"S", "o", "n", "o", "m", "a", " ", "C", "o", "u", "n", "t",
               "y", ",", " ", "C", "a", "l", "i", "f", "o", "r", "n", "i",
               "a">>],
  [key |-> <<"s", "o", "n", "o", "m", "a", " ", "c", "o", "u", "n", "t",
             "y">>,
   value |-> <<"S", "o", "n", "o", "m", "a", " ", "C", "o", "u", "n", "t",
               "y", ",", " ", "C", "a", "l", "i", "f", "o", "r", "n", "i",
               "a">>],
  [key |-> <<"s", "o", "n", "o", "m", "a", ",", " ", "c", "a">>,
   value |-> <<"S", "o", "n", "o", "m", "a", " ", "C", "o", "u", "n", "t",
               "y", ",", " ", "C", "a", "l", "i", "f", "o", "r", "n", "i",
               "a">>],
  [key |-> <<"b", "o", "r", "d", "e", "a", "u", "x">>,
   value |-> <<"B", "o", "r", "d", "e", "a", "u", "x", ",", " ", "F", "r",
               "a", "n", "c", "e">>],
  [key |-> <<"b", "o", "r", "d", "e", "l", "a", "i", "s">>,
   value |-> <<"B", "o", "r", "d", "e", "a", "u", "x", ",", " ", "F", "r",
               "a", "n", "c", "e">>],
  [key |-> <<"b", "u", "r", "g", "u", "n", "d", "y">>,
   value |-> <<"B", "u", "r", "g", "u", "n", "d", "y", ",", " ", "F", "r",
               "a", "n", "c", "e">>],
  [key |-> <<"b", "o", "u", "r", "g", "o", "g", "n", "e">>,
   value |-> <<"B", "u", "r", "g", "u", "n", "d", "y", ",", " ", "F", "r",
               "a", "n", "c", "e">>],
  [key |-> <<"c", "h", "a", "m", "p", "a", "g", "n", "e">>,
   value |-> <<"C", "h", "a", "m", "p", "a", "g", "n", "e", ",", " ", "F",
               "r", "a", "n", "c", "e">>],
  [key |-> <<"t", "u", "s", "c", "a", "n", "y">>,
   value |-> <<"T", "u", "s", "c", "a", "n", "y", ",", " ", "I", "t", "a",
               "l", "y">>],
  [key |-> <<"t", "o", "s", "c", "a", "n", "a">>,
   value |-> <<"T", "u", "s", "c", "a", "n", "y", ",", " ", "I", "t", "a",
               "l", "y">>],
  [key |-> <<"c", "h", "i", "a", "n", "t", "i">>,
   value |-> <<"C", "h", "i", "a", "n", "t", "i", ",", " ", "T", "u", "s",
               "c", "a", "n", "y", ",", " ", "I", "t", "a", "l", "y">>],
  [key |-> <<"p", "i", "e", "d", "m", "o", "n", "t">>,
   value |-> <<"P", "i", "e", "d", "m", "o", "n", "t", ",", " ", "I", "t",
               "a", "l", "y">>],
  [key |-> <<"p", "i", "e", "m", "o", "n", "t", "e">>,
   value |-> <<"P", "i", "e", "d", "m", "o", "n", "t", ",", " ", "I", "t",
               "a", "l", "y">>],
  [key |-> <<"r", "i", "o", "j", "a">>,
   value |-> <<"R", "i", "o", "j", "a", ",", " ", "S", "p", "a", "i", "n">>],
  [key |-> <<"l", "a", " ", "r", "i", "o", "j", "a">>,
   value |-> <<"R", "i", "o", "j", "a", ",", " ", "S", "p", "a", "i", "n">>],
  [key |-> <<"m", "o", "s", "e", "l">>,
   value |-> <<"M", "o", "s", "e", "l", ",", " ", "G", "e", "r", "m", "a",
               "n", "y">>],
  [key |-> <<"r", "h", "e", "i", "n", "g", "a", "u">>,
   value |-> <<"R", "h", "e", "i", "n", "g", "a", "u", ",", " ", "G", "e",
               "r", "m", "a", "n", "y">>],
  [key |-> <<"p", "f", "a", "l", "z">>,
   value |-> <<"P", "f", "a", "l", "z", ",", " ", "G", "e", "r", "m", "a",
               "n", "y">>],
  [key |-> <<"b", "a", "r", "o", "s", "s", "a">>,
   value |-> <<"B", "a", "r", "o", "s", "s", "a", " ", "V", "a", "l", "l",
               "e", "y", ",", " ", "A", "u", "s", "t", "r", "a", "l", "i",
               "a">>],
  [key |-> <<"b", "a", "r", "o", "s", "s", "a", " ", "v", "a", "l", "l",
             "e", "y">>,
   value |-> <<"B", "a", "r", "o", "s", "s", "a", " ", "V", "a", "l", "l",
               "e", "y", ",", " ", "A", "u", "s", "t", "r", "a", "l", "i",
               "a">>],
  [key |-> <<"h", "u", "n", "t", "e", "r", " ", "v", "a", "l", "l", "e",
             "y">>,
   value |-> <<"H", "u", "n", "t", "e", "r", " ", "V", "a", "l", "l", "e",
               "y", ",", " ", "A", "u", "s", "t", "r", "a", "l", "i", "a">>],
  [key |-> <<"c", "l", "a", "r", "e", " ", "v", "a", "l", "l", "e", "y">>,
   value |-> <<"C", "l", "a", "r", "e", " ", "V", "a", "l", "l", "e", "y",
               ",", " ", "A", "u", "s", "t", "r", "a", "l", "i", "a">>],
  [key |-> <<"c", "o", "o", "n", "a", "w", "a", "r", "r", "a">>,
   value |-> <<"C", "o", "o", "n", "a", "w", "a", "r", "r", "a", ",", " ",
               "A", "u", "s", "t", "r", "a", "l", "i", "a">>],
  [key |-> <<"m", "a", "i", "p", "o">>,
   value |-> <<"M", "a", "i", "p", "o", " ", "V", "a", "l", "l", "e", "y",
               ",", " ", "C", "h", "i", "l", "e">>],
  [key |-> <<"m", "a", "i", "p", "o", " ", "v", "a", "l", "l", "e", "y">>,
   value |-> <<"M", "a", "i", "p", "o", " ", "V", "a", "l", "l", "e", "y",
               ",", " ", "C", "h", "i", "l", "e">>],
  [key |-> <<"c", "o", "l", "c", "h", "a", "g", "u", "a">>,
   value |-> <<"C", "o", "l", "c", "h", "a", "g", "u", "a", " ", "V", "a",
               "l", "l", "e", "y", ",", " ", "C", "h", "i", "l", "e">>],
  [key |-> <<"c", "a", "s", "a", "b", "l", "a", "n", "c", "a">>,
   value |-> <<"C", "a", "s", "a", "b", "l", "a", "n", "c", "a", " ", "V",
               "a", "l", "l", "e", "y", ",", " ", "C", "h", "i", "l", "e">>],
  [key |-> <<"m", "e", "n", "d", "o", "z", "a">>,
   value |-> <<"M", "e", "n", "d", "o", "z", "a", ",", " ", "A", "r", "g",
               "e", "n", "t", "i", "n", "a">>],
  [key |-> <<"s", "a", "l", "t", "a">>,
   value |-> <<"S", "a", "l", "t", "a", ",", " ", "A", "r", "g", "e", "n",
               "t", "i", "n", "a">>],
  [key |-> <<"s", "t", "e", "l", "l", "e", "n", "b", "o", "s", "c", "h">>,
   value |-> <<"S", "t", "e", "l", "l", "e", "n", "b", "o", "s", "c", "h",
               ",", " ", "S", "o", "u", "t", "h", " ", "A", "f", "r", "i",
               "c", "a">>],
  [key |-> <<"p", "a", "a", "r", "l">>,
   value |-> <<"P", "a", "a", "r", "l", ",", " ", "S", "o", "u", "t", "h",
               " ", "A", "f", "r", "i", "c", "a">>],
  [key |-> <<"o", "k", "a", "n", "a", "g", "a", "n">>,
   value |-> <<"O", "k", "a", "n", "a", "g", "a", "n", " ", "V", "a", "l",
               "l", "e", "y", ",", " ", "B", "r", "i", "t", "i", "s", "h",
               " ", "C", "o", "l", "u", "m", "b", "i", "a">>],
  [key |-> <<"o", "k", "a", "n", "a", "g", "a", "n", " ", "v", "a", "l",
             "l", "e", "y">>,
   value |-> <<"O", "k", "a", "n", "a", "g", "a", "n", " ", "V", "a", "l",
               "l", "e", "y", ",", " ", "B", "r", "i", "t", "i", "s", "h",
               " ", "C", "o", "l", "u", "m", "b", "i", "a">>],
  [key |-> <<"n", "i", "a", "g", "a", "r", "a">>,
   value |-> <<"N", "i", "a", "g", "a", "r", "a", " ", "P", "e", "n", "i",
               "n", "s", "u", "l", "a", ",", " ", "O", "n", "t", "a", "r",
               "i", "o">>],
  [key |-> <<"n", "i", "a", "g", "a", "r", "a", " ", "p", "e", "n", "i",
             "n", "s", "u", "l", "a">>,
   value |-> <<"N", "i", "a", "g", "a", "r", "a", " ", "P", "e", "n", "i",
               "n", "s", "u", "l", "a", ",", " ", "O", "n", "t", "a", "r",
               "i", "o">>]
>>

UnknownRegion ==
  <<"U", "n", "k", "n", "o", "w", "n", " ", "R", "e", "g", "i", "o", "n">>
UnknownWinery ==
  <<"U", "n", "k", "n", "o", "w", "n", " ", "W", "i", "n", "e", "r", "y">>

\* WineDataNormalizer.normalizeRegion
normalizeRegion(region) ==
  IF region = <<>> THEN UnknownRegion
  ELSE
    LET cleaned == trimString(toLowerCase(region))
        direct == {i \in DOMAIN REGION_MAPPING : REGION_MAPPING[i].key = cleaned}
        partial == {i \in DOMAIN REGION_MAPPING :
                      \/ includes(cleaned, REGION_MAPPING[i].key)
                      \/ includes(REGION_MAPPING[i].key, cleaned)}
    IN IF direct # {} THEN REGION_MAPPING[MinOf(direct)].value
       ELSE IF partial # {} THEN REGION_MAPPING[MinOf(partial)].value
       ELSE LET parts == splitComma(region, <<>>)
            IN joinComma([i \in 1..Len(parts) |->
                            capitalize(trimString(parts[i]))])

\* WineDataNormalizer.normalizeName (the two quote replacements put a quote
\* in the place of a quote)
normalizeName(name) ==
  IF name = <<>> THEN <<>> ELSE collapseSpaces(trimString(name))

\* the words the regular expression of normalizeVineyard removes at the end
VineyardSuffixes == {
  <<"w", "i", "n", "e", "r", "y">>, <<"w", "i", "n", "e", "s">>,
  <<"v", "i", "n", "e", "y", "a", "r", "d">>, <<"e", "s", "t", "a", "t", "e">>,
  <<"c", "e", "l", "l", "a", "r">>, <<"c", "e", "l", "l", "a", "r", "s">>,
  <<"d", "o", "m", "a", "i", "n", "e">>,
  <<"c", "h", "â", "t", "e", "a", "u">>,
  <<"c", "h", "a", "t", "e", "a", "u">> }

\* String.prototype.replace(/\b(winery|...)\b$/i, ''): the alternatives are
\* tried in order at the leftmost position where one matches
stripSuffix(str) ==
  LET at == {i \in 1..Len(str) :
               /\ \E w \in VineyardSuffixes :
                     toLowerCase(SubSeq(str, i, Len(str))) = w
               /\ (i = 1 \/ ~isWordChar(str[i - 1]))}
  IN IF at = {} THEN str ELSE SubSeq(str, 1, MinOf(at) - 1)

\* WineDataNormalizer.normalizeVineyard
normalizeVineyard(vineyard) ==
  IF vineyard = <<>> THEN UnknownWinery
  ELSE trimString(stripSuffix(collapseSpaces(trimString(vineyard))))

(***************************************************************************)
(* SEARCH: WineApiService.searchWine behind GET /api/wines/search-external *)
(* A result keeps name, vineyard, region, vintage_year, rating, price,     *)
(* currency and source.  A price is a fraction; a missing price is 0.      *)
(***************************************************************************)
CurrentYear == 2026               \* new Date().getFullYear()
DefaultLimit == 10                \* options.limit || 10
NoPrice == Zero                   \* price undefined
NoRatingText == -1                \* the card has no .average__number text
USD == "USD"

\* variant of normalizeVintage without the upper bound
normalizeVintage_NoUpperBound(vintage) ==
  IF vintage = NoVintage THEN NoVintage
  ELSE IF vintage < 1800 THEN NoVintage
  ELSE vintage

\* WineDataNormalizer.normalizeVintage
normalizeVintage(vintage) ==
  IF vintage = NoVintage THEN NoVintage
  ELSE IF vintage < 1800 \/ vintage > CurrentYear THEN NoVintage
  ELSE vintage

\* WineDataNormalizer.normalizePrice: Math.round(price * 100) / 100
normalizePrice(price) ==
  IF price.n <= 0 THEN NoPrice
  ELSE IF Greater(One, price) \/ Greater(price, Frac(10000, 1)) THEN NoPrice
  ELSE Frac(round(100 * price.n, price.d), 100)

\* normalizeRating on the rating of a result, a whole number or undefined
ratingOf(wine) ==
  IF wine.rating = UndefinedRating THEN UndefinedRating
  ELSE normalizeRating(wine.rating * RatingScale, wine.source)

\* WineDataNormalizer.normalizeWineData
normalizeWineData(wine) ==
  [ name |-> normalizeName(wine.name),
    vineyard |-> normalizeVineyard(wine.vineyard),
    region |-> normalizeRegion(wine.region),
    vintage_year |-> normalizeVintage(wine.vintage_year),
    rating |-> ratingOf(wine),
    price |-> normalizePrice(wine.price),
    currency |-> IF wine.currency = UNDEF THEN USD ELSE wine.currency,
    source |-> wine.source ]

\* a || b on vintage years and on strings
orYear(a, b) == IF a # NoVintage THEN a ELSE b
orText(a, b) == IF a # <<>> THEN a ELSE b

\* variant of limitOf without the default
limitOf_NoDefault(opts) == opts.limit

\* options.limit || 10
limitOf(opts) == IF opts.limit # 0 THEN opts.limit ELSE DefaultLimit

\* the result performVivinoSearch builds from one .wine-card
resultOfCard(card, opts) ==
  [ name |-> trimString(card.name),
    vineyard |-> orText(trimString(card.winery), UnknownWinery),
    region |-> orText(trimString(card.region),
                      orText(opts.region, UnknownRegion)),
    vintage_year |-> orYear(card.year, opts.vintage),
    rating |-> IF card.ratingText = NoRatingText THEN UndefinedRating
               ELSE round(card.ratingText * 20, RatingScale),
    price |-> card.price,
    currency |-> card.currency,
    source |-> "vivino" ]

\* the .each loop of performVivinoSearch from card index on (index from 0)
RECURSIVE scrapeFrom(_, _, _)
scrapeFrom(cs, index, opts) ==
  IF index >= Len(cs) THEN <<>>
  ELSE IF index >= limitOf(opts) THEN <<>>
  ELSE IF trimString(cs[index + 1].name) = <<>>
    THEN scrapeFrom(cs, index + 1, opts)
  ELSE <<resultOfCard(cs[index + 1], opts)>> \o scrapeFrom(cs, index + 1, opts)

performVivinoSearch(cs, opts) == scrapeFrom(cs, 0, opts)

Estate == <<" ", "E", "s", "t", "a", "t", "e">>
HeritageVineyards ==
  <<"H", "e", "r", "i", "t", "a", "g", "e", " ",
    "V", "i", "n", "e", "y", "a", "r", "d", "s">>
SonomaCounty ==
  <<"S", "o", "n", "o", "m", "a", " ", "C", "o", "u", "n", "t", "y">>

\* mockResults of searchWineApi
searchWineApi(opts) ==
  << [ name |-> opts.query \o Estate,
       vineyard |-> HeritageVineyards,
       region |-> orText(opts.region, SonomaCounty),
       vintage_year |-> orYear(opts.vintage, 2019),
       rating |-> 92,
       price |-> Frac(3850, 100),
       currency |-> USD,
       source |-> "wine_api" ] >>

\* Array.prototype.slice(0, end)
slice(arr, end) ==
  IF end >= 0 THEN SubSeq(arr, 1, Min2(end, Len(arr)))
  ELSE SubSeq(arr, 1, Max2(Len(arr) + end, 0))

\* the tail of searchWine: normalize, remove duplicates, cut to the limit
finish(res, opts) ==
  LET normalizedResults == [i \in 1..Len(res) |-> normalizeWineData(res[i])]
      uniqueResults == removeDuplicates(normalizedResults)
  IN slice(uniqueResults, limitOf(opts))

\* ---- the inputs
MaxCards == 2                     \* .wine-card elements on the page
QueryAb == <<"a", "b">>
Napa == <<"n", "a", "p", "a">>
\* limit: parseInt of the query-string value, 10 when there is none
Limits == {DefaultLimit, 0, -1, 1, 2}
SearchOptions ==
  [ query : {QueryAb}, limit : Limits, vintage : {NoVintage, 1700, 2019},
    region : {<<>>, Napa} ]
\* a card: its texts, the year extractYear finds in its name, and the number
\* parsePrice reads from its price text
CardSet == {
  [ name |-> QueryAb \o Estate, winery |-> HeritageVineyards, region |-> <<>>,
    year |-> NoVintage, ratingText |-> (9 * RatingScale) \div 2,
    price |-> Frac(3850, 100), currency |-> USD ],
  [ name |-> <<"b", "a", " ", " ", "x">>, winery |-> <<>>,
    region |-> <<" ", "M", "o", "s", "e", "l">>,
    year |-> 2099, ratingText |-> RatingScale \div 5,
    price |-> Frac(1, 2), currency |-> "EUR" ],
  [ name |-> QueryAb, winery |-> <<"a", "b", " ", "W", "i", "n", "e", "s">>,
    region |-> <<"x", "y", ",", "z">>,
    year |-> 1999, ratingText |-> NoRatingText,
    price |-> Frac(10000004, 1000), currency |-> USD ],
  [ name |-> <<" ">>, winery |-> <<>>, region |-> <<>>,
    year |-> NoVintage, ratingText |-> RatingScale,
    price |-> NoPrice, currency |-> USD ],
  [ name |-> QueryAb \o Estate, winery |-> HeritageVineyards, region |-> <<>>,
    year |-> 2019, ratingText |-> 5 * RatingScale,
    price |-> Frac(19999, 1000), currency |-> USD ] }
CardLists == UNION {[1..n -> CardSet] : n \in 0..MaxCards}

SearchInit ==
  /\ options \in SearchOptions
  /\ cards \in CardLists
  /\ collected = <<>>
  /\ searchResults = <<>>
  /\ spc = "vivino"
  /\ vivinoFailed = FALSE

SearchIdle ==
  /\ options = [query |-> <<>>, limit |-> DefaultLimit, vintage |-> NoVintage,
                region |-> <<>>]
  /\ cards = <<>>
  /\ collected = <<>>
  /\ searchResults = <<>>
  /\ spc = "idle"
  /\ vivinoFailed = FALSE

\* await this.searchVivino(options) resolves: results.push(...vivinoResults)
VivinoReturns ==
  /\ spc = "vivino"
  /\ collected' = collected \o performVivinoSearch(cards, options)
  /\ spc' = "wineapi"
  /\ UNCHANGED <<options, cards, searchResults, vivinoFailed>>
  /\ UNCHANGED nonSearchVars

\* await this.searchVivino(options) rejects: the catch block only logs
VivinoThrows ==
  /\ spc = "vivino"
  /\ vivinoFailed' = TRUE
  /\ spc' = "wineapi"
  /\ UNCHANGED <<options, cards, collected, searchResults>>
  /\ UNCHANGED nonSearchVars

\* await this.searchWineApi(options) resolves, and searchWine runs to its
\* return
WineApiReturns ==
  /\ spc = "wineapi"
  /\ collected' = collected \o searchWineApi(options)
  /\ searchResults' = finish(collected', options)
  /\ spc' = "done"
  /\ UNCHANGED <<options, cards, vivinoFailed>>
  /\ UNCHANGED nonSearchVars

SearchNext == VivinoReturns \/ VivinoThrows \/ WineApiReturns

\* the secondary source's results, normalized and de-duplicated
secondaryResults(opts) ==
  LET res == searchWineApi(opts)
  IN removeDuplicates([i \in 1..Len(res) |-> normalizeWineData(res[i])])

\* C11: searchWine returns at most options.limit results (10 when the query
\* string has no limit), for every integer limit the route can pass,
\* including 0 and negative values.
C11_AtMostLimitResults ==
  spc = "done" => Len(searchResults) <= options.limit

\* C15: every result returned by searchWine has a vintage_year that is
\* undefined or within [1800, current year], a price that is undefined or
\* within [1, 10000] and a rating that is undefined or within [1, 100].
C15_ResultsInRange ==
  spc = "done" =>
    \A k \in 1..Len(searchResults) :
       LET r == searchResults[k]
       IN /\ r.vintage_year = NoVintage
             \/ (r.vintage_year >= 1800 /\ r.vintage_year <= CurrentYear)
          /\ r.price = NoPrice
             \/ (AtMost(One, r.price) /\ AtMost(r.price, Frac(10000, 1)))
          /\ r.rating = UndefinedRating \/ (r.rating >= 1 /\ r.rating <= 100)

\* C15's case: a Vivino result scraped with a year in the future and a price
\* below 1 was returned with both undefined, next to a result that kept its
\* vintage year, price and rating
C15_Witness ==
  /\ spc = "done"
  /\ \E j \in 1..Len(collected) :
        /\ collected[j].vintage_year > CurrentYear
        /\ collected[j].price = Frac(1, 2)
        /\ \E k \in 1..Len(searchResults) :
              /\ searchResults[k].name = normalizeName(collected[j].name)
              /\ searchResults[k].vintage_year = NoVintage
              /\ searchResults[k].price = NoPrice
  /\ \E k \in 1..Len(searchResults) :
        /\ searchResults[k].vintage_year # NoVintage
        /\ searchResults[k].price # NoPrice
        /\ searchResults[k].rating # UndefinedRating

\* in the returned list no result of the secondary source precedes a Vivino
\* result
VivinoFirst ==
  \A i \in 1..Len(searchResults), j \in 1..Len(searchResults) :
     (searchResults[i].source = "wine_api"
        /\ searchResults[j].source = "vivino") => j < i

\* the secondary source was queried: its result is the last one collected
SecondaryQueried ==
  /\ Len(collected) >= 1
  /\ collected[Len(collected)].source = "wine_api"

C17_VivinoRatingPreserved ==
  spc = "done" =>
    \A k \in 1..Len(searchResults), j \in 1..Len(collected) :
       ( /\ collected[j].source = "vivino"
         /\ collected[j].rating >= 20
         /\ searchResults[k].source = "vivino"
         /\ searchResults[k].name = normalizeName(collected[j].name)
         /\ searchResults[k].vineyard = normalizeVineyard(collected[j].vineyard)
         /\ searchResults[k].vintage_year
              = normalizeVintage(collected[j].vintage_year) )
       => searchResults[k].rating = collected[j].rating

(***************************************************************************)
(* FIELDS: vintage_year, rating, price, currency, description and          *)
(* food_pairings of a stored wine (updated_at is left out).  A number is   *)
(* n / d; d = 0 stands for NULL or undefined.                              *)
(***************************************************************************)
TheWine == 1                      \* the id the one POST that succeeds draws
FieldIds == {TheWine}
Num(n, d) == [n |-> n, d |-> d]
Whole(k) == Num(k, 1)
NullNum == Num(0, 0)
isNull(x) == x.d = 0
truthy(x) == x.d # 0 /\ x.n # 0               \* if (x)
lessThan(x, k) == x.d # 0 /\ x.n < k * x.d    \* x < k
moreThan(x, k) == x.d # 0 /\ x.n > k * x.d    \* x > k
isInteger(x) == x.d # 0 /\ x.n % x.d = 0
\* parseInt of a number that is not negative
parseInt(x) == Whole(x.n \div x.d)

\* a body field: absent (undefined), or given with a value (null included)
Absent == [given |-> FALSE, v |-> NullNum]
Given(x) == [given |-> TRUE, v |-> x]
NoText == [given |-> FALSE, v |-> NULL]
Text(t) == [given |-> TRUE, v |-> t]

\* req.body.vintage_year && (vintage_year < 1800 || vintage_year > year)
invalidVintage(f) ==
  truthy(f.v) /\ (lessThan(f.v, 1800) \/ moreThan(f.v, CurrentYear))
\* req.body.rating && (rating < 1 || rating > 100)
invalidRating(f) == truthy(f.v) /\ (lessThan(f.v, 1) \/ moreThan(f.v, 100))

\* variant of checkVintage: the column has no CHECK constraint
checkVintage_Off(x, year) == TRUE

\* the CHECK constraints of the wines table
checkVintage(x, year) ==
  isNull(x) \/ (~lessThan(x, 1800) /\ ~moreThan(x, year))
checkRating(x) == isNull(x) \/ (~lessThan(x, 1) /\ ~moreThan(x, 100))
checks(row, year) ==
  checkVintage(row.vintage_year, year) /\ checkRating(row.rating)

NoRow ==
  [ exists |-> FALSE, vintage_year |-> NullNum, rating |-> NullNum,
    price |-> NullNum, currency |-> USD, description |-> NULL,
    food_pairings |-> <<>> ]

\* the column value of a field of updateData: the row's value when the
\* field is not in updateData
setNum(f, old) == IF f.given THEN f.v ELSE old
setText(f, old) == IF f.given THEN trim(f.v) ELSE old

\* ---- request bodies
VintageInputs ==
  {Absent, Given(NullNum), Given(Whole(0)), Given(Whole(1799)),
   Given(Whole(2020)), Given(Whole(CurrentYear)),
   Given(Whole(CurrentYear + 1))}
RatingInputs ==
  {Absent, Given(NullNum), Given(Whole(0)), Given(Num(101, 2)),
   Given(Whole(100)), Given(Whole(101))}
PriceInputs == {Absent, Given(Whole(0)), Given(Whole(20))}
DescriptionInputs == {NoText, Text(" d1 ")}
\* a body changes one field of BaseBody, or lacks the name, or carries a valid
\* field next to an invalid one
BaseBody ==
  [ name |-> "n", vintage_year |-> Absent, rating |-> Absent,
    price |-> Absent, description |-> NoText ]
FieldBodies ==
  {[BaseBody EXCEPT !.vintage_year = v] : v \in VintageInputs}
    \cup {[BaseBody EXCEPT !.rating = r] : r \in RatingInputs}
    \cup {[BaseBody EXCEPT !.price = x] : x \in PriceInputs}
    \cup {[BaseBody EXCEPT !.description = t] : t \in DescriptionInputs}
    \cup {[BaseBody EXCEPT !.name = UNDEF],
          [BaseBody EXCEPT !.vintage_year = Given(Whole(1799)),
                           !.rating = Given(Whole(100))],
          [BaseBody EXCEPT !.vintage_year = Given(Whole(2020)),
                           !.rating = Given(Whole(101)),
                           !.description = Text(" d1 ")]}

\* what the first result of searchWine carries
ExternalData ==
  [ description : {UNDEF, "dx"}, rating : {UndefinedRating, 92},
    food_pairings : {<<>>, <<"Salmon">>},
    price : {NullNum, Num(77, 2)}, currency : {UNDEF, "EUR"} ]

Reply(op, code, vintageCarried, ratingCarried) ==
  [op |-> op, code |-> code, vintage |-> vintageCarried,
   rating |-> ratingCarried]

\* what a request carried in a field whose valid range is lo..hi
carried(f, lo, hi) ==
  IF ~f.given \/ isNull(f.v) THEN "none"
  ELSE IF f.v.n = 0 THEN "zero"
  ELSE IF lessThan(f.v, lo) \/ moreThan(f.v, hi) THEN "outside"
  ELSE "valid"

ApIdle == [pc |-> "idle", description |-> FALSE, rating |-> FALSE,
           food_pairings |-> FALSE, price |-> FALSE]

\* the year of the wines migration fixes the upper bound of the CHECK
FieldInit ==
  /\ cellar = [id \in FieldIds |-> NoRow]
  /\ checkYear \in {CurrentYear - 1, CurrentYear}
  /\ ap = ApIdle
  /\ lastReq = Reply("none", 0, "none", "none")

FieldIdle ==
  /\ cellar = [id \in FieldIds |-> NoRow]
  /\ checkYear = CurrentYear
  /\ ap = ApIdle
  /\ lastReq = Reply("none", 0, "none", "none")

\* the row router.post('/') and WineModel.create insert
createdRow(body) ==
  [ exists |-> TRUE,
    vintage_year |-> IF truthy(body.vintage_year.v)
                       THEN parseInt(body.vintage_year.v) ELSE NullNum,
    rating |-> IF truthy(body.rating.v)
                 THEN parseInt(body.rating.v) ELSE NullNum,
    price |-> IF truthy(body.price.v) THEN body.price.v ELSE NullNum,
    currency |-> USD,
    description |-> IF body.description.given
                      THEN trim(body.description.v) ELSE NULL,
    food_pairings |-> <<>> ]

\* POST /api/wines
PostFields(body) ==
  LET bad == Reply("POST", 400, carried(body.vintage_year, 1800, CurrentYear),
                   carried(body.rating, 1, 100))
      row == createdRow(body)
  IN /\ \E id \in FieldIds : ~cellar[id].exists
     /\ IF body.name = UNDEF \/ invalidVintage(body.vintage_year)
           \/ invalidRating(body.rating)
          THEN lastReq' = bad /\ UNCHANGED cellar
        ELSE IF ~checks(row, checkYear)
          THEN lastReq' = [bad EXCEPT !.code = 500] /\ UNCHANGED cellar
        ELSE /\ lastReq' = [bad EXCEPT !.code = 201]
             /\ cellar' = [cellar EXCEPT
                             ![CHOOSE id \in FieldIds : ~cellar[id].exists]
                               = row]
     /\ UNCHANGED <<checkYear, ap>>
     /\ UNCHANGED nonFieldVars

\* the row after WineModel.update(id, updateData) with the updateData
\* router.put('/:id') builds
updatedRow(old, body) ==
  [ old EXCEPT !.vintage_year = setNum(body.vintage_year, @),
               !.rating = setNum(body.rating, @),
               !.price = setNum(body.price, @),
               !.description = setText(body.description, @) ]

\* PUT /api/wines/:id
PutFields(id, body) ==
  LET bad == Reply("PUT", 400, carried(body.vintage_year, 1800, CurrentYear),
                   carried(body.rating, 1, 100))
      row == updatedRow(cellar[id], body)
  IN /\ IF ~cellar[id].exists
          THEN lastReq' = [bad EXCEPT !.code = 404] /\ UNCHANGED cellar
        ELSE IF invalidVintage(body.vintage_year)
                \/ invalidRating(body.rating)
          THEN lastReq' = bad /\ UNCHANGED cellar
        ELSE IF ~checks(row, checkYear)
          THEN lastReq' = [bad EXCEPT !.code = 500] /\ UNCHANGED cellar
        ELSE /\ lastReq' = [bad EXCEPT !.code = 200]
             /\ cellar' = [cellar EXCEPT ![id] = row]
     /\ UNCHANGED <<checkYear, ap>>
     /\ UNCHANGED nonFieldVars

\* POST /api/wines/:id/auto-populate up to its call of searchWine: the wine
\* is read and the emptiness of four of its fields is what the rest uses
AutoPopulateFind(id) ==
  /\ ap.pc = "idle"
  /\ IF ~cellar[id].exists
       THEN /\ lastReq' = Reply("AUTO", 404, "none", "none")
            /\ UNCHANGED ap
       ELSE /\ ap' = [ pc |-> "search",
                       description |-> cellar[id].description \in {NULL, ""},
                       rating |-> ~truthy(cellar[id].rating),
                       food_pairings |-> cellar[id].food_pairings = <<>>,
                       price |-> ~truthy(cellar[id].price) ]
            /\ UNCHANGED lastReq
  /\ UNCHANGED <<cellar, checkYear>>
  /\ UNCHANGED nonFieldVars

\* variant of populatedRow that takes the external description whatever the
\* wine has
populatedRow_Overwrite(old, empty, ext) ==
  [ old EXCEPT
      !.description = IF ext.description # UNDEF THEN ext.description ELSE @ ]

\* the updateData auto-populate builds, applied to the row
populatedRow(old, empty, ext) ==
  [ old EXCEPT
      !.description = IF empty.description /\ ext.description # UNDEF
                        THEN ext.description ELSE @,
      !.rating = IF empty.rating /\ ext.rating \notin {UndefinedRating, 0}
                   THEN Whole(ext.rating) ELSE @,
      !.food_pairings = IF empty.food_pairings /\ ext.food_pairings # <<>>
                          THEN ext.food_pairings ELSE @,
      !.price = IF empty.price /\ truthy(ext.price) THEN ext.price ELSE @,
      !.currency = IF empty.price /\ truthy(ext.price)
                     THEN (IF ext.currency = UNDEF THEN USD
                           ELSE ext.currency)
                     ELSE @ ]

\* Object.keys(updateData).length === 0
nothingToPopulate(empty, ext) ==
  /\ ~(empty.description /\ ext.description # UNDEF)
  /\ ~(empty.rating /\ ext.rating \notin {UndefinedRating, 0})
  /\ ~(empty.food_pairings /\ ext.food_pairings # <<>>)
  /\ ~(empty.price /\ truthy(ext.price))

\* searchWine returned no result: 'No external data found for this wine'
AutoPopulateNoData(id) ==
  /\ ap.pc = "search"
  /\ ap' = ApIdle
  /\ lastReq' = Reply("AUTO", 200, "none", "none")
  /\ UNCHANGED <<cellar, checkYear>>
  /\ UNCHANGED nonFieldVars

\* searchWine returned results: the rest of auto-populate with results[0]
AutoPopulateUpdate(id, ext) ==
  LET row == populatedRow(cellar[id], ap, ext)
  IN /\ ap.pc = "search"
     /\ ap' = ApIdle
     /\ IF nothingToPopulate(ap, ext)
          THEN /\ lastReq' = Reply("AUTO", 200, "none", "none")
               /\ UNCHANGED cellar
        ELSE IF ~checks(row, checkYear)
          THEN /\ lastReq' = Reply("AUTO", 500, "none", "none")
               /\ UNCHANGED cellar
        ELSE /\ lastReq' = Reply("AUTO", 200, "none", "none")
             /\ cellar' = [cellar EXCEPT ![id] = row]
     /\ UNCHANGED checkYear
     /\ UNCHANGED nonFieldVars

FieldNext ==
  \/ \E body \in FieldBodies : PostFields(body)
  \/ \E id \in FieldIds, body \in FieldBodies : PutFields(id, body)
  \/ \E id \in FieldIds : AutoPopulateFind(id)
  \/ \E id \in FieldIds : AutoPopulateNoData(id)
  \/ \E id \in FieldIds, ext \in ExternalData : AutoPopulateUpdate(id, ext)

\* every stored vintage_year is absent or within [1800, current year]
VintageInRange ==
  \A id \in FieldIds :
     LET x == cellar[id].vintage_year
     IN isNull(x) \/ (~lessThan(x, 1800) /\ ~moreThan(x, CurrentYear))

\* C12 as stated: through POST /api/wines and PUT /api/wines/:id every stored
\* vintage_year is absent or within [1800, current year], and a request
\* carrying a vintage_year outside that range never changes the stored wines.
C12_VintageValidated ==
  /\ [](VintageInRange)
  /\ [][ (lastReq'.op \in {"POST", "PUT"}
            /\ lastReq'.vintage \in {"zero", "outside"})
         => cellar' = cellar ]_vars

\* C12 amended: every stored vintage_year is absent or within [1800, current
\* year]; a request carrying a vintage_year other than 0 outside that range
\* never changes the stored wines; a vintage_year of 0 is not validated by
\* the routes: a POST carrying it is accepted and stores the wine with no
\* vintage year, and a PUT carrying it changes no wine (the CHECK constraint
\* of the column rejects the update).
C12_VintageValidatedExceptZero ==
  /\ [](VintageInRange)
  /\ [][ /\ (lastReq'.op \in {"POST", "PUT"} /\ lastReq'.vintage = "outside")
            => cellar' = cellar
         /\ (lastReq'.op = "PUT" /\ lastReq'.vintage = "zero")
            => cellar' = cellar
         /\ (lastReq'.op = "POST" /\ lastReq'.vintage = "zero"
               /\ cellar' # cellar)
            => \A id \in FieldIds :
                  cellar'[id] # cellar[id]
                    => isNull(cellar'[id].vintage_year) ]_vars

\* C12's case: a PUT carrying the vintage year 1799 was answered 400 while
\* the wine keeps its vintage year 2020
C12_Witness ==
  /\ lastReq.op = "PUT" /\ lastReq.code = 400 /\ lastReq.vintage = "outside"
  /\ cellar[TheWine].exists /\ cellar[TheWine].vintage_year = Whole(2020)

\* every stored rating is absent or an integer within [1, 100]
RatingIsInteger ==
  \A id \in FieldIds :
     LET x == cellar[id].rating
     IN isNull(x)
        \/ (isInteger(x) /\ ~lessThan(x, 1) /\ ~moreThan(x, 100))

\* C13: through wine create, update and auto-populate requests every stored
\* rating is absent or an integer within [1, 100], and a request carrying a
\* rating outside that range never changes the stored wines.
C13_RatingValidated ==
  /\ [](RatingIsInteger)
  /\ [][ (lastReq'.op \in {"POST", "PUT"}
            /\ lastReq'.rating \in {"zero", "outside"})
         => cellar' = cellar ]_vars

\* C18: POST /api/wines/:id/auto-populate only fills fields that are empty
\* (null, '', 0 or []) when the wine is read: each of description, rating,
\* food_pairings and price that is not empty then keeps its value, and no
\* field other than description, rating, food_pairings, price and currency
\* (and updated_at) is changed by the call.
C18_AutoPopulateFillsEmptyOnly ==
  [][ (ap.pc = "search" /\ ap'.pc = "idle") =>
        \A id \in FieldIds :
           /\ ~ap.description
                => cellar'[id].description = cellar[id].description
           /\ ~ap.rating => cellar'[id].rating = cellar[id].rating
           /\ ~ap.food_pairings
                => cellar'[id].food_pairings = cellar[id].food_pairings
           /\ ~ap.price => cellar'[id].price = cellar[id].price
           /\ cellar'[id].exists = cellar[id].exists
           /\ cellar'[id].vintage_year = cellar[id].vintage_year ]_vars

\* C18's case: auto-populate succeeded on a wine that had a description and
\* no rating and no price: the description is the wine's own, the rating and
\* the price are the external ones
C18_Witness ==
  /\ lastReq.op = "AUTO" /\ lastReq.code = 200
  /\ cellar[TheWine].description = "d1"
  /\ cellar[TheWine].rating = Whole(92)
  /\ cellar[TheWine].price = Num(77, 2)
  /\ cellar[TheWine].currency = "EUR"

\* C19: POST /api/wines/:id/consume on a wine that is already 'Consumed'
\* returns 400 and leaves the wine, its date_consumed included, unchanged; on
\* an id that matches no wine it returns 404 and changes no wine and no rack
\* slot.
C19_ConsumeRejected ==
  [][ lastOp'.op = "CONSUME" =>
        /\ (lastOp'.id \in DOMAIN wines
              /\ wines[lastOp'.id].consumption_status = "Consumed")
             => /\ lastOp'.code = 400
                /\ lastOp'.id \in DOMAIN wines'
                /\ wines'[lastOp'.id] = wines[lastOp'.id]
        /\ lastOp'.id \notin DOMAIN wines
             => /\ lastOp'.code = 404
                /\ wines' = wines
                /\ rack_slots' = rack_slots ]_vars

\* C19's case: a wine consumed on the date d1 was asked to be consumed again
\* and the request was answered 400
C19_Witness ==
  /\ lastOp.op = "CONSUME" /\ lastOp.code = 400
  /\ lastOp.id \in DOMAIN wines
  /\ wines[lastOp.id].consumption_status = "Consumed"
  /\ wines[lastOp.id].date_consumed = "d1"

(***************************************************************************)
(* The tables that reference wines(id): memories, images and food_pairings *)
(* (ON DELETE CASCADE) and rack_slots (ON DELETE SET NULL), under          *)
(* DELETE /api/wines/:id.  The route runs one statement, DELETE FROM wines;*)
(* the child rows are touched only by the foreign key actions of SQLite.   *)
(***************************************************************************)
MaxParents == 2                   \* wines ever created in a run
MaxRows == 3                      \* child rows ever inserted in a run
ParentIds == 1..MaxParents        \* uuidv4() of WineModel.create
RowIds == 1..MaxRows              \* uuidv4() of the child rows
FoodItems == {"brie"}             \* req.body.food_item

ChildRow(id, wine_id) == [id |-> id, wine_id |-> wine_id]
PairingRow(id, wine_id, food_item) ==
  [id |-> id, wine_id |-> wine_id, food_item |-> food_item]


\* wine_id REFERENCES wines(id) ON DELETE CASCADE: acts only when the
\* connection enforces foreign keys
onDeleteCascade(rows, id, fk) ==
  IF fk THEN {r \in rows : r.wine_id # id} ELSE rows

\* rack_slots.wine_id REFERENCES wines(id) ON DELETE SET NULL, for one slot
slotAfterDelete(slot, id, fk) == IF fk /\ slot = id THEN NoWine ELSE slot

Deleted(id, code) == [id |-> id, code |-> code]

\* whether the SQLite connection enforces foreign keys is a property of the
\* build: knexfile.js and database.ts never issue PRAGMA foreign_keys
CascadeStart(fk) ==
  /\ wineRows = {}
  /\ memories = {}
  /\ images = {}
  /\ food_pairings = {}
  /\ slot_wine = NoWine
  /\ enforced = fk
  /\ nextWine = 1
  /\ nextRow = 1
  /\ lastDelete = Deleted(NoWine, 0)

CascadeInit == \E fk \in BOOLEAN : CascadeStart(fk)

\* router.post('/') of the wines router: a row with a fresh id
CascadePostWine ==
  /\ nextWine <= MaxParents
  /\ wineRows' = wineRows \cup {nextWine}
  /\ nextWine' = nextWine + 1
  /\ UNCHANGED <<memories, images, food_pairings, slot_wine, enforced,
                 nextRow, lastDelete>>
  /\ UNCHANGED nonCascadeVars

\* router.post('/') of the memories router: 404 unless the wine exists
PostMemory(wine_id) ==
  /\ nextRow <= MaxRows
  /\ IF wine_id \notin wineRows
       THEN UNCHANGED <<memories, nextRow>>
       ELSE /\ memories' = memories \cup {ChildRow(nextRow, wine_id)}
            /\ nextRow' = nextRow + 1
  /\ UNCHANGED <<wineRows, images, food_pairings, slot_wine, enforced,
                 nextWine, lastDelete>>
  /\ UNCHANGED nonCascadeVars

\* router.post('/wine/:wineId') of the images router, one file uploaded
PostImage(wineId) ==
  /\ nextRow <= MaxRows
  /\ IF wineId \notin wineRows
       THEN UNCHANGED <<images, nextRow>>
       ELSE /\ images' = images \cup {ChildRow(nextRow, wineId)}
            /\ nextRow' = nextRow + 1
  /\ UNCHANGED <<wineRows, memories, food_pairings, slot_wine, enforced,
                 nextWine, lastDelete>>
  /\ UNCHANGED nonCascadeVars

\* router.post('/') of the food pairings router: 404 unless the wine exists;
\* the insert fails on unique(wine_id, food_item)
PostFoodPairing(wine_id, food_item) ==
  /\ nextRow <= MaxRows
  /\ IF \/ wine_id \notin wineRows
        \/ \E r \in food_pairings :
             r.wine_id = wine_id /\ r.food_item = food_item
       THEN UNCHANGED <<food_pairings, nextRow>>
       ELSE /\ food_pairings' =
                 food_pairings \cup {PairingRow(nextRow, wine_id, food_item)}
            /\ nextRow' = nextRow + 1
  /\ UNCHANGED <<wineRows, memories, images, slot_wine, enforced, nextWine,
                 lastDelete>>
  /\ UNCHANGED nonCascadeVars

\* RackSlotModel.assignWineToSlot on one slot; with foreign keys enforced the
\* update is rejected when wineId matches no wine
CascadeAssignSlot(wineId) ==
  /\ slot_wine' = IF enforced /\ wineId \notin wineRows THEN slot_wine
                  ELSE wineId
  /\ UNCHANGED <<wineRows, memories, images, food_pairings, enforced,
                 nextWine, nextRow, lastDelete>>
  /\ UNCHANGED nonCascadeVars

\* router.delete('/:id'): 404, else WineModel.delete; the child tables change
\* only through the foreign key actions
CascadeDeleteWine(id) ==
  /\ IF id \notin wineRows
       THEN /\ lastDelete' = Deleted(id, 404)
            /\ UNCHANGED <<wineRows, memories, images, food_pairings,
                           slot_wine>>
       ELSE /\ wineRows' = wineRows \ {id}
            /\ memories' = onDeleteCascade(memories, id, enforced)
            /\ images' = onDeleteCascade(images, id, enforced)
            /\ food_pairings' = onDeleteCascade(food_pairings, id, enforced)
            /\ slot_wine' = slotAfterDelete(slot_wine, id, enforced)
            /\ lastDelete' = Deleted(id, 204)
  /\ UNCHANGED <<enforced, nextWine, nextRow>>
  /\ UNCHANGED nonCascadeVars

CascadeNext ==
  \/ CascadePostWine
  \/ \E w \in ParentIds : PostMemory(w)
  \/ \E w \in ParentIds : PostImage(w)
  \/ \E w \in ParentIds, f \in FoodItems : PostFoodPairing(w, f)
  \/ \E w \in ParentIds : CascadeAssignSlot(w)
  \/ \E w \in ParentIds : CascadeDeleteWine(w)

(***************************************************************************)
(* The food pairings router mounted at /api/food-pairings.  Express tries  *)
(* the routes of a router in the order of their registration and runs the  *)
(* first whose method and path pattern match; every handler here answers   *)
(* without calling next().                                                 *)
(***************************************************************************)
MaxPairings == 2                  \* food_pairings rows ever inserted in a run
KnownWine == 1                    \* the id of a row of wines
WineRefs == {0, KnownWine, 2}     \* req.body.wine_id: absent, known, unknown
validCategories == {"Appetizer", "Main Course", "Dessert", "Cheese", "Other"}
CategoryInputs == {UNDEF, "Cheese", "Other", "Bogus"}
FoodInputs == {UNDEF, "brie", " brie ", "Fish"}     \* req.body.food_item
\* what suggestFoodPairings resolves to: a list without repetitions
Suggestions == {<<>>, <<"Fish">>, <<"Fish", "brie">>}
Methods == {"GET", "POST", "PUT", "DELETE"}

\* one segment of a request path: a word, or the uuid of a row
Lit(text) == [text |-> text, n |-> 0]
Uuid(n) == [text |-> "uuid", n |-> n]
\* one segment of a route pattern: a literal, or a :parameter
L(text) == [param |-> FALSE, seg |-> Lit(text)]
P(name) == [param |-> TRUE, seg |-> Lit(name)]

Route(method, pattern, handler) ==
  [method |-> method, pattern |-> pattern, handler |-> handler]

\* routes/foodPairings.ts, in the order of the router.<method> calls
foodPairingsRouter ==
  << Route("GET", <<>>, "GET /"),
     Route("GET", <<P("id")>>, "GET /:id"),
     Route("POST", <<>>, "POST /"),
     Route("PUT", <<P("id")>>, "PUT /:id"),
     Route("DELETE", <<P("id")>>, "DELETE /:id"),
     Route("POST", <<L("bulk-suggestions"), P("wine_id")>>,
           "POST /bulk-suggestions/:wine_id"),
     Route("GET", <<L("categories")>>, "GET /categories") >>

\* app.use('*'): the 404 handler behind every router
RouteNotFound == Route("*", <<>>, "Route not found")

\* path-to-regexp: as many segments as the pattern, a literal segment
\* matches itself and a :parameter matches any segment
matches(pattern, path) ==
  /\ Len(pattern) = Len(path)
  /\ \A i \in 1..Len(pattern) : pattern[i].param \/ pattern[i].seg = path[i]

\* Router.handle: the first registered route whose method and pattern match
dispatch(router, method, path) ==
  LET hits == {i \in 1..Len(router) :
                 router[i].method = method /\ matches(router[i].pattern, path)}
  IN  IF hits = {} THEN RouteNotFound ELSE router[MinOf(hits)]

Paths ==
  {<<>>, <<Lit("categories")>>, <<Lit("bulk-suggestions"), Uuid(KnownWine)>>,
   <<Lit("bulk-suggestions"), Uuid(2)>>, <<Lit("categories"), Uuid(1)>>}
    \cup {<<Uuid(n)>> : n \in 1..MaxPairings}

PairingBodies ==
  [wine_id : WineRefs, food_item : FoodInputs, category : CategoryInputs]

NoBody == <<>>
Exchange(method, path, handler, status, body) ==
  [method |-> method, path |-> path, handler |-> handler, status |-> status,
   body |-> body]

\* select category, count(*) ... groupBy('category'): one entry per category
\* that has rows
categoryCounts(rows) ==
  [c \in {rows[i].category : i \in DOMAIN rows} |->
     Cardinality({i \in DOMAIN rows : rows[i].category = c})]

RoutingInit ==
  /\ pairings = <<>>
  /\ nextPairing = 1
  /\ exchange = Exchange("none", <<>>, "none", 0, NoBody)

RoutingIdle == RoutingInit

\* variant of taken: the table carries no unique index
taken_Never(rows, wine_id, food_item) == FALSE

\* table.unique(['wine_id', 'food_item']): a row of rows holds the pair
taken(rows, wine_id, food_item) ==
  \E i \in DOMAIN rows :
    rows[i].wine_id = wine_id /\ rows[i].food_item = food_item

\* the handler of router.post('/')
createPairing(method, path, body) ==
  IF body.wine_id = 0 \/ body.food_item = UNDEF \/ body.category = UNDEF
    THEN /\ exchange' = Exchange(method, path, "POST /", 400, NoBody)
         /\ UNCHANGED <<pairings, nextPairing>>
  ELSE IF body.category \notin validCategories
    THEN /\ exchange' = Exchange(method, path, "POST /", 400, NoBody)
         /\ UNCHANGED <<pairings, nextPairing>>
  ELSE IF body.wine_id # KnownWine
    THEN /\ exchange' = Exchange(method, path, "POST /", 404, NoBody)
         /\ UNCHANGED <<pairings, nextPairing>>
  ELSE IF taken(pairings, body.wine_id, trim(body.food_item))
    THEN /\ exchange' = Exchange(method, path, "POST /", 500, NoBody)
         /\ UNCHANGED <<pairings, nextPairing>>
  ELSE LET pairingData == [body EXCEPT !.food_item = trim(body.food_item)]
       IN  /\ nextPairing <= MaxPairings
           /\ pairings' = pairings @@ (nextPairing :> pairingData)
           /\ nextPairing' = nextPairing + 1
           /\ exchange' = Exchange(method, path, "POST /", 201, pairingData)

\* the handler of router.put('/:id'); the update fails on the unique index
\* when another row holds the new pair
updatePairing(method, path, body) ==
  LET id == path[1].n IN
  IF id \notin DOMAIN pairings
    THEN /\ exchange' = Exchange(method, path, "PUT /:id", 404, NoBody)
         /\ UNCHANGED <<pairings, nextPairing>>
  ELSE IF body.category # UNDEF /\ body.category \notin validCategories
    THEN /\ exchange' = Exchange(method, path, "PUT /:id", 400, NoBody)
         /\ UNCHANGED <<pairings, nextPairing>>
  ELSE LET row == [pairings[id] EXCEPT
                     !.food_item = IF body.food_item = UNDEF THEN @
                                   ELSE trim(body.food_item),
                     !.category = IF body.category = UNDEF THEN @
                                  ELSE body.category]
           others == [i \in DOMAIN pairings \ {id} |-> pairings[i]]
       IN  IF taken(others, row.wine_id, row.food_item)
             THEN /\ exchange' = Exchange(method, path, "PUT /:id", 500, NoBody)
                  /\ UNCHANGED <<pairings, nextPairing>>
             ELSE /\ pairings' = [pairings EXCEPT ![id] = row]
                  /\ exchange' = Exchange(method, path, "PUT /:id", 200, row)
                  /\ UNCHANGED nextPairing

\* the handler of router.post('/bulk-suggestions/:wine_id'): one insert
\* statement for all the rows, which fails as a whole on the unique index
bulkSuggestions(method, path, suggestions) ==
  LET h == "POST /bulk-suggestions/:wine_id"
      n == Len(suggestions)
      pairingData ==
        [i \in nextPairing..(nextPairing + n - 1) |->
           [wine_id |-> KnownWine,
            food_item |-> suggestions[i - nextPairing + 1],
            category |-> "Other"]]
  IN
  IF path[2].n # KnownWine
    THEN /\ exchange' = Exchange(method, path, h, 404, NoBody)
         /\ UNCHANGED <<pairings, nextPairing>>
  ELSE IF n = 0
    THEN /\ exchange' = Exchange(method, path, h, 200, NoBody)
         /\ UNCHANGED <<pairings, nextPairing>>
  ELSE IF \E k \in 1..n : taken(pairings, KnownWine, suggestions[k])
    THEN /\ exchange' = Exchange(method, path, h, 500, NoBody)
         /\ UNCHANGED <<pairings, nextPairing>>
  ELSE /\ nextPairing + n - 1 <= MaxPairings
       /\ pairings' = pairings @@ pairingData
       /\ nextPairing' = nextPairing + n
       /\ exchange' = Exchange(method, path, h, 201, pairingData)

\* one request to /api/food-pairings<path>: the dispatched handler runs
FoodPairingsRequest(method, path, body, suggestions) ==
  LET route == dispatch(foodPairingsRouter, method, path)
      h == route.handler
  IN
  /\ CASE h = "GET /" ->
            /\ exchange' = Exchange(method, path, h, 200, pairings)
            /\ UNCHANGED <<pairings, nextPairing>>
       [] h = "GET /:id" ->
            /\ exchange' =
                 IF path[1] \in {Uuid(i) : i \in DOMAIN pairings}
                   THEN Exchange(method, path, h, 200, pairings[path[1].n])
                   ELSE Exchange(method, path, h, 404, NoBody)
            /\ UNCHANGED <<pairings, nextPairing>>
       [] h = "POST /" -> createPairing(method, path, body)
       [] h = "PUT /:id" ->
            IF path[1].text = "uuid"
              THEN updatePairing(method, path, body)
              ELSE /\ exchange' = Exchange(method, path, h, 404, NoBody)
                   /\ UNCHANGED <<pairings, nextPairing>>
       [] h = "DELETE /:id" ->
            IF path[1] \in {Uuid(i) : i \in DOMAIN pairings}
              THEN /\ pairings' = [i \in DOMAIN pairings \ {path[1].n} |->
                                     pairings[i]]
                   /\ exchange' = Exchange(method, path, h, 204, NoBody)
                   /\ UNCHANGED nextPairing
              ELSE /\ exchange' = Exchange(method, path, h, 404, NoBody)
                   /\ UNCHANGED <<pairings, nextPairing>>
       [] h = "POST /bulk-suggestions/:wine_id" ->
            bulkSuggestions(method, path, suggestions)
       [] h = "GET /categories" ->
            /\ exchange' =
                 Exchange(method, path, h, 200, categoryCounts(pairings))
            /\ UNCHANGED <<pairings, nextPairing>>
       [] OTHER ->
            /\ exchange' = Exchange(method, path, h, 404, NoBody)
            /\ UNCHANGED <<pairings, nextPairing>>
  /\ UNCHANGED nonRoutingVars

\* a body is read by the handlers of POST / and of PUT /:id only
EmptyBody == [wine_id |-> 0, food_item |-> UNDEF, category |-> UNDEF]
BodiesOf(method, path) ==
  IF (method = "POST" /\ Len(path) = 0) \/ (method = "PUT" /\ Len(path) = 1)
    THEN PairingBodies ELSE {EmptyBody}
\* suggestFoodPairings is called by the bulk-suggestions handler only
SuggestionsOf(method, path) ==
  IF method = "POST" /\ Len(path) = 2 THEN Suggestions ELSE {<<>>}

RoutingNext ==
  \E method \in Methods, path \in Paths :
    \E body \in BodiesOf(method, path),
       suggestions \in SuggestionsOf(method, path) :
      FoodPairingsRequest(method, path, body, suggestions)

\* the wine_id values held by memories, images and food_pairings
childWineIds ==
  {r.wine_id : r \in memories} \cup {r.wine_id : r \in images}
    \cup {r.wine_id : r \in food_pairings}

\* C14: deleting a wine cascades: in every reachable state each memories,
\* images and food_pairings wine_id refers to an existing wine, and while the
\* last DELETE /api/wines/:id answered 204 no child row and no rack slot
\* holds the deleted id
C14_DeleteCascades ==
  /\ childWineIds \subseteq wineRows
  /\ lastDelete.code = 204 =>
       /\ lastDelete.id \notin childWineIds
       /\ slot_wine # lastDelete.id

\* the last request was GET /api/food-pairings/categories
CategoriesRequested ==
  exchange.method = "GET" /\ exchange.path = <<Lit("categories")>>

\* C20: GET /api/food-pairings/categories is answered by the categories
\* handler with the per-category pairing counts, never by the GET /:id handler
C20_CategoriesDispatched ==
  CategoriesRequested =>
    /\ exchange.handler = "GET /categories"
    /\ exchange.status = 200
    /\ exchange.body = categoryCounts(pairings)

C25_DateConsumedIffConsumed ==
  \A id \in DOMAIN wines :
    wines[id].date_consumed # NULL <=> wines[id].consumption_status = "Consumed"

(***************************************************************************)
(* Concurrent POST /api/wines/:id/consume requests for one wine.  A        *)
(* handler gives up control at each await: after WineModel.findById, and   *)
(* inside WineModel.markConsumed after clearSlotByWineId, after the update *)
(* and after the final findById.  Each statement is its own transaction.   *)
(***************************************************************************)
MaxHandlers == 2                  \* consume requests in flight for the wine
Handlers == 1..MaxHandlers
NoResponse == 0
ConsumeDates == {UNDEF, "d1", "d2"}   \* req.body.consumed_date

\* the row of the wine and its rack slot before the requests arrive
ConsumeStart(present, status, inSlot) ==
  /\ target = [present |-> present, consumption_status |-> status,
               date_consumed |-> NULL,
               rack_slot |-> IF inSlot THEN "A1" ELSE NULL]
  /\ targetSlot = IF inSlot THEN [wine_id |-> TheWine, is_occupied |-> TRUE]
                  ELSE EmptySlot
  /\ consumePc = [h \in Handlers |-> "idle"]
  /\ seen = [h \in Handlers |-> NULL]
  /\ requestDate = [h \in Handlers |-> NULL]
  /\ response = [h \in Handlers |-> NoResponse]
  /\ dateWrites = <<>>

ConsumeInit ==
  \E present \in BOOLEAN, status \in {"Available", "Reserved"},
     inSlot \in BOOLEAN :
    /\ ~present => (status = "Available" /\ ~inSlot)
    /\ ConsumeStart(present, status, inSlot)

ConsumeIdle == ConsumeStart(FALSE, "Available", FALSE)

\* await WineModel.findById, the 404 and 400 checks, and requestDate
ConsumeFindById(h, consumed_date) ==
  /\ consumePc[h] = "idle"
  /\ IF ~target.present
       THEN /\ response' = [response EXCEPT ![h] = 404]
            /\ consumePc' = [consumePc EXCEPT ![h] = "done"]
            /\ UNCHANGED <<seen, requestDate>>
       ELSE /\ seen' = [seen EXCEPT ![h] = target.consumption_status]
            /\ IF target.consumption_status = "Consumed"
                 THEN /\ response' = [response EXCEPT ![h] = 400]
                      /\ consumePc' = [consumePc EXCEPT ![h] = "done"]
                      /\ UNCHANGED requestDate
                 ELSE /\ requestDate' =
                           [requestDate EXCEPT
                              ![h] = IF consumed_date = UNDEF THEN NOW
                                     ELSE consumed_date]
                      /\ consumePc' = [consumePc EXCEPT ![h] = "clearSlot"]
                      /\ UNCHANGED response
  /\ UNCHANGED <<target, targetSlot, dateWrites>>
  /\ UNCHANGED nonConsumeVars

\* markConsumed: await RackSlotModel.clearSlotByWineId(id)
ConsumeClearSlot(h) ==
  /\ consumePc[h] = "clearSlot"
  /\ targetSlot' = IF targetSlot.wine_id = TheWine THEN EmptySlot
                   ELSE targetSlot
  /\ consumePc' = [consumePc EXCEPT ![h] = "update"]
  /\ UNCHANGED <<target, seen, requestDate, response, dateWrites>>
  /\ UNCHANGED nonConsumeVars

\* markConsumed: await db(TABLE).where({ id }).update({...})
ConsumeUpdate(h) ==
  /\ consumePc[h] = "update"
  /\ target' = [target EXCEPT !.consumption_status = "Consumed",
                              !.date_consumed = requestDate[h],
                              !.rack_slot = NULL]
  /\ dateWrites' = Append(dateWrites, h)
  /\ consumePc' = [consumePc EXCEPT ![h] = "findById"]
  /\ UNCHANGED <<targetSlot, seen, requestDate, response>>
  /\ UNCHANGED nonConsumeVars

\* markConsumed: return this.findById(id), then res.json(updatedWine)
ConsumeRespond(h) ==
  /\ consumePc[h] = "findById"
  /\ response' = [response EXCEPT ![h] = 200]
  /\ consumePc' = [consumePc EXCEPT ![h] = "done"]
  /\ UNCHANGED <<target, targetSlot, seen, requestDate, dateWrites>>
  /\ UNCHANGED nonConsumeVars

ConsumeNext ==
  \/ \E h \in Handlers, d \in ConsumeDates : ConsumeFindById(h, d)
  \/ \E h \in Handlers : ConsumeClearSlot(h)
  \/ \E h \in Handlers : ConsumeUpdate(h)
  \/ \E h \in Handlers : ConsumeRespond(h)

\* C26: of the consume requests handled concurrently for one wine that is not
\* yet consumed, at most one answers 200 and date_consumed is written by at
\* most one of them, by exactly one once a request has succeeded
C26_AtMostOneConsumeSucceeds ==
  /\ Cardinality({h \in Handlers : response[h] = 200}) <= 1
  /\ Len(dateWrites) <= 1
  /\ (\E h \in Handlers : response[h] = 200) => Len(dateWrites) = 1

(***************************************************************************)
(* WineDataNormalizer.normalizeRegion applied to a region and then to its  *)
(* own result.                                                             *)
(***************************************************************************)
RegionAlphabet == {"x", "N", " ", ","}
RegionInputs ==
  UNION {[1..k -> RegionAlphabet] : k \in 0..MaxStrLen}
    \cup {REGION_MAPPING[i].key : i \in DOMAIN REGION_MAPPING}
    \cup {REGION_MAPPING[i].value : i \in DOMAIN REGION_MAPPING}

RegionStart(region) ==
  /\ regionArg = region
  /\ regionPc = "start"
  /\ regionOnce = <<>>
  /\ regionTwice = <<>>

RegionInit == \E region \in RegionInputs : RegionStart(region)

RegionIdle == RegionStart(<<>>)

\* normalizeRegion(region)
NormalizeRegion ==
  /\ regionPc = "start"
  /\ regionOnce' = normalizeRegion(regionArg)
  /\ regionPc' = "once"
  /\ UNCHANGED <<regionArg, regionTwice>>
  /\ UNCHANGED nonRegionVars

\* normalizeRegion applied to the string the first call returned
NormalizeRegionAgain ==
  /\ regionPc = "once"
  /\ regionTwice' = normalizeRegion(regionOnce)
  /\ regionPc' = "twice"
  /\ UNCHANGED <<regionArg, regionOnce>>
  /\ UNCHANGED nonRegionVars

RegionNext == NormalizeRegion \/ NormalizeRegionAgain

\* C28: normalizeRegion is idempotent: normalizing a result again returns it
C28_NormalizeRegionIdempotent ==
  regionPc = "twice" => regionTwice = regionOnce

(***************************************************************************)
(* The memories router: POST /, PUT /:memoryId, GET /:memoryId and         *)
(* DELETE /:memoryId over the memories table, before and after the         *)
(* migration that adds the content and date_experienced columns.           *)
(***************************************************************************)
MaxMemories == 1                  \* memories ever created in a run
MaxImages == 1                    \* images ever uploaded in a run
MemoryIds == 1..MaxMemories
NoMemory == 0                     \* images.memory_id IS NULL
\* the tables the migrations create
Tables == {"wines", "images", "memories", "rack_slots", "food_pairings"}
ContentInputs ==
  {NoText, Text(<<>>), Text(<<" ">>), Text(<<"a">>), Text(<<" ", "b", " ">>)}
MemoryDates == {UNDEF, "d1", "d2"}    \* req.body.date_experienced

\* what a response carries of a memory; an error response carries neither
MemoryOp(op, id, code, content, date, reqContent, reqDate) ==
  [op |-> op, id |-> id, code |-> code, content |-> content, date |-> date,
   reqContent |-> reqContent, reqDate |-> reqDate]

\* mapMemoryToApi: content || description, date_experienced || experience_date
\* (a column that does not exist yet reads as undefined, falsy like '' and null)
mapMemoryToApi(dbMemory) ==
  [content |-> IF dbMemory.content # <<>> THEN dbMemory.content
               ELSE dbMemory.description,
   date_experienced |-> IF dbMemory.date_experienced # NULL
                          THEN dbMemory.date_experienced
                          ELSE dbMemory.experience_date]

MemoryInit ==
  /\ memoryTable = <<>>
  /\ imageTable = {}
  /\ migrated = FALSE
  /\ nextMemory = 1
  /\ memoryOp = MemoryOp("none", NoMemory, 0, <<>>, NULL, NoText, UNDEF)

MemoryIdle == MemoryInit

\* router.post('/') for a wine that exists: 400 without content, else insert
\* (content defaults to '' and date_experienced to NULL once they exist)
MemoryPost(content, date_experienced) ==
  /\ nextMemory <= MaxMemories
  /\ IF ~content.given \/ content.v = <<>>
       THEN /\ memoryOp' = MemoryOp("POST", NoMemory, 400, <<>>, NULL,
                                    content, date_experienced)
            /\ UNCHANGED <<memoryTable, nextMemory>>
       ELSE LET row == [description |-> trimString(content.v),
                        content |-> <<>>,
                        experience_date |->
                          IF date_experienced = UNDEF THEN NOW
                          ELSE date_experienced,
                        date_experienced |-> NULL]
                api == mapMemoryToApi(row)
            IN  /\ memoryTable' = memoryTable @@ (nextMemory :> row)
                /\ nextMemory' = nextMemory + 1
                /\ memoryOp' = MemoryOp("POST", nextMemory, 201, api.content,
                                        api.date_experienced, content,
                                        date_experienced)
  /\ UNCHANGED <<imageTable, migrated>>
  /\ UNCHANGED nonMemoryVars

\* the migration that adds content and date_experienced and copies
\* description and experience_date into them for the rows that exist
CompatibilityMigration ==
  /\ ~migrated
  /\ migrated' = TRUE
  /\ memoryTable' =
       [id \in DOMAIN memoryTable |->
          [memoryTable[id] EXCEPT
             !.content = memoryTable[id].description,
             !.date_experienced = memoryTable[id].experience_date]]
  /\ UNCHANGED <<imageTable, nextMemory, memoryOp>>
  /\ UNCHANGED nonMemoryVars

\* router.put('/:memoryId'): 404, else content goes to description and
\* date_experienced to experience_date
MemoryPut(id, content, date_experienced) ==
  /\ IF id \notin DOMAIN memoryTable
       THEN /\ memoryOp' = MemoryOp("PUT", id, 404, <<>>, NULL, content,
                                    date_experienced)
            /\ UNCHANGED memoryTable
       ELSE LET row == [memoryTable[id] EXCEPT
                          !.description = IF content.given
                                            THEN trimString(content.v) ELSE @,
                          !.experience_date = IF date_experienced # UNDEF
                                                THEN date_experienced ELSE @]
                api == mapMemoryToApi(row)
            IN  /\ memoryTable' = [memoryTable EXCEPT ![id] = row]
                /\ memoryOp' = MemoryOp("PUT", id, 200, api.content,
                                        api.date_experienced, content,
                                        date_experienced)
  /\ UNCHANGED <<imageTable, migrated, nextMemory>>
  /\ UNCHANGED nonMemoryVars

\* router.get('/:memoryId')
MemoryGet(id) ==
  /\ memoryOp' =
       IF id \notin DOMAIN memoryTable
         THEN MemoryOp("GET", id, 404, <<>>, NULL, NoText, UNDEF)
         ELSE LET api == mapMemoryToApi(memoryTable[id])
              IN  MemoryOp("GET", id, 200, api.content, api.date_experienced,
                           NoText, UNDEF)
  /\ UNCHANGED <<memoryTable, imageTable, migrated, nextMemory>>
  /\ UNCHANGED nonMemoryVars

\* router.post('/wine/:wineId') of the images router: the row carries no
\* memory_id
UploadImage ==
  /\ Cardinality(imageTable) < MaxImages
  /\ imageTable' = imageTable \cup
                     {[id |-> Cardinality(imageTable) + 1,
                       memory_id |-> NoMemory]}
  /\ UNCHANGED <<memoryTable, migrated, nextMemory, memoryOp>>
  /\ UNCHANGED nonMemoryVars

\* router.delete('/:memoryId'): 404; the query on wine_images throws when
\* no such table exists and the handler answers 500 from its catch block
MemoryDelete(id) ==
  /\ IF id \notin DOMAIN memoryTable
       THEN /\ memoryOp' = MemoryOp("DELETE", id, 404, <<>>, NULL, NoText,
                                    UNDEF)
            /\ UNCHANGED <<memoryTable, imageTable>>
       ELSE IF "wine_images" \notin Tables
         THEN /\ memoryOp' = MemoryOp("DELETE", id, 500, <<>>, NULL, NoText,
                                      UNDEF)
              /\ UNCHANGED <<memoryTable, imageTable>>
         ELSE /\ imageTable' = {r \in imageTable : r.memory_id # id}
              /\ memoryTable' = [m \in DOMAIN memoryTable \ {id} |->
                                   memoryTable[m]]
              /\ memoryOp' = MemoryOp("DELETE", id, 200, <<>>, NULL, NoText,
                                      UNDEF)
  /\ UNCHANGED <<migrated, nextMemory>>
  /\ UNCHANGED nonMemoryVars

MemoryNext ==
  \/ \E c \in ContentInputs, d \in MemoryDates : MemoryPost(c, d)
  \/ CompatibilityMigration
  \/ \E id \in MemoryIds, c \in ContentInputs, d \in MemoryDates :
       MemoryPut(id, c, d)
  \/ \E id \in MemoryIds : MemoryGet(id)
  \/ UploadImage
  \/ \E id \in MemoryIds : MemoryDelete(id)

\* C21: DELETE /api/memories/:memoryId for an existing memory succeeds and
\* leaves neither the memory nor an image row of that memory; for an id that
\* matches no memory it answers 404 and changes nothing
C21_MemoryDeleted ==
  [][\A id \in MemoryIds :
       (memoryOp'.op = "DELETE" /\ memoryOp'.id = id) =>
         IF id \in DOMAIN memoryTable
           THEN /\ memoryOp'.code = 200
                /\ id \notin DOMAIN memoryTable'
                /\ \A r \in imageTable' : r.memory_id # id
           ELSE /\ memoryOp'.code = 404
                /\ UNCHANGED <<memoryTable, imageTable>>]_vars

\* C22: after a successful PUT /api/memories/:memoryId carrying content c and
\* date_experienced d, a GET of that memory returns c trimmed and d
C22_MemoryUpdateRoundTrips ==
  [][(/\ memoryOp.op = "PUT" /\ memoryOp.code = 200
      /\ memoryOp.reqContent.given /\ memoryOp.reqDate # UNDEF
      /\ memoryOp'.op = "GET" /\ memoryOp'.id = memoryOp.id
      /\ memoryOp'.code = 200)
     => /\ memoryOp'.content = trimString(memoryOp.reqContent.v)
        /\ memoryOp'.date = memoryOp.reqDate]_vars

\* no two rows of food_pairings hold the same (wine_id, food_item)
NoDuplicatePairs(rows) ==
  \A i, j \in DOMAIN rows :
    (rows[i].wine_id = rows[j].wine_id /\ rows[i].food_item = rows[j].food_item)
      => i = j

\* C23: through create, update and bulk-suggestions requests no two
\* food_pairings rows come to share (wine_id, food_item), and a request that
\* fails leaves the table as it was, a bulk-suggestions request inserting
\* none of its rows
C23_NoDuplicatePairings ==
  [][/\ NoDuplicatePairs(pairings')
     /\ exchange'.status >= 400 => pairings' = pairings]_vars

\* a bulk-suggestions request of two rows, one of them a pair the table holds,
\* was refused and the other row is not in the table
C23_Witness ==
  /\ exchange.handler = "POST /bulk-suggestions/:wine_id"
  /\ exchange.status = 500
  /\ taken(pairings, KnownWine, "brie")
  /\ ~taken(pairings, KnownWine, "Fish")

(***************************************************************************)
(* The pages of one Vivino search: retryWithExponentialBackoff around      *)
(* performVivinoSearch, whose try block opens a page and whose finally     *)
(* block awaits page.close() and ignores its rejection.                    *)
(***************************************************************************)
NoPage == 0                       \* let page = null
NoError == <<>>
PageErrors ==
  {e \in Errors : e.code \in {NULL, "ENOTFOUND"} /\ e.status \in {0, 403}}

PageInit ==
  /\ vPc = "loop"
  /\ vAttempt = 0
  /\ page = NoPage
  /\ openPages = {}
  /\ closeSettled = {}
  /\ closeFailed = {}
  /\ pagesMade = 0
  /\ pending = NoError
  /\ vOutcome = "none"

PageIdle == PageInit

\* the for loop of retryWithExponentialBackoff: the next attempt starts, or
\* lastError is thrown after the last one
VivinoLoop ==
  /\ vPc = "loop"
  /\ IF loopContinues(vAttempt)
       THEN /\ vPc' = "acquire"
            /\ page' = NoPage
            /\ pending' = NoError
            /\ UNCHANGED vOutcome
       ELSE /\ vPc' = "done"
            /\ vOutcome' = "thrown"
            /\ UNCHANGED <<page, pending>>
  /\ UNCHANGED <<vAttempt, openPages, closeSettled, closeFailed, pagesMade>>
  /\ UNCHANGED nonPageVars

\* await this.rateLimit(); await this.getBrowser(), before the try block
VivinoAcquire ==
  /\ vPc = "acquire"
  /\ vPc' = "newPage"
  /\ UNCHANGED <<vAttempt, page, openPages, closeSettled, closeFailed,
                 pagesMade, pending, vOutcome>>
  /\ UNCHANGED nonPageVars

\* getBrowser rejects: the attempt throws with no page opened
VivinoAcquireFails(e) ==
  /\ vPc = "acquire"
  /\ vPc' = "failed"
  /\ pending' = <<e>>
  /\ UNCHANGED <<vAttempt, page, openPages, closeSettled, closeFailed,
                 pagesMade, vOutcome>>
  /\ UNCHANGED nonPageVars

\* page = await browser.newPage()
VivinoNewPage ==
  /\ vPc = "newPage"
  /\ page' = pagesMade + 1
  /\ pagesMade' = pagesMade + 1
  /\ openPages' = openPages \cup {pagesMade + 1}
  /\ vPc' = "scrape"
  /\ UNCHANGED <<vAttempt, closeSettled, closeFailed, pending, vOutcome>>
  /\ UNCHANGED nonPageVars

\* browser.newPage() rejects: page stays null
VivinoNewPageFails(e) ==
  /\ vPc = "newPage"
  /\ pending' = <<e>>
  /\ vPc' = "finally"
  /\ UNCHANGED <<vAttempt, page, openPages, closeSettled, closeFailed,
                 pagesMade, vOutcome>>
  /\ UNCHANGED nonPageVars

\* the rest of the try block resolves: navigation, cards, results
VivinoScrape ==
  /\ vPc = "scrape"
  /\ vPc' = "finally"
  /\ UNCHANGED <<vAttempt, page, openPages, closeSettled, closeFailed,
                 pagesMade, pending, vOutcome>>
  /\ UNCHANGED nonPageVars

\* a step of the try block rejects (withTimeout included): catch rethrows
VivinoScrapeFails(e) ==
  /\ vPc = "scrape"
  /\ pending' = <<e>>
  /\ vPc' = "finally"
  /\ UNCHANGED <<vAttempt, page, openPages, closeSettled, closeFailed,
                 pagesMade, vOutcome>>
  /\ UNCHANGED nonPageVars

\* variant of closeAttempted: the page is closed only when nothing was thrown
closeAttempted_OnSuccess(p, err) == p # NoPage /\ err = NoError

\* if (page) in the finally block
closeAttempted(p, err) == p # NoPage

\* the attempt settles after the finally block: it returns, or throws pending
settles ==
  IF pending = NoError
    THEN vPc' = "done" /\ vOutcome' = "returned"
    ELSE vPc' = "failed" /\ UNCHANGED vOutcome

\* finally: await page.close().catch(() => {}); closed tells whether close()
\* resolved; when it rejects the error is ignored and the page is still open
VivinoFinally(closed) ==
  /\ vPc = "finally"
  /\ IF closeAttempted(page, pending)
       THEN /\ closeSettled' = closeSettled \cup {page}
            /\ IF closed
                 THEN openPages' = openPages \ {page} /\ UNCHANGED closeFailed
                 ELSE closeFailed' = closeFailed \cup {page}
                      /\ UNCHANGED openPages
       ELSE /\ closed
            /\ UNCHANGED <<openPages, closeSettled, closeFailed>>
  /\ settles
  /\ UNCHANGED <<vAttempt, page, pagesMade, pending>>
  /\ UNCHANGED nonPageVars

\* the catch block of retryWithExponentialBackoff: a terminal error is
\* rethrown, any other error leads to the next turn of the loop
VivinoAttemptFailed ==
  /\ vPc = "failed"
  /\ IF isNonRetryableError(pending[1])
       THEN /\ vPc' = "done"
            /\ vOutcome' = "thrown"
            /\ UNCHANGED vAttempt
       ELSE /\ vPc' = "loop"
            /\ vAttempt' = vAttempt + 1
            /\ UNCHANGED vOutcome
  /\ UNCHANGED <<page, openPages, closeSettled, closeFailed, pagesMade,
                 pending>>
  /\ UNCHANGED nonPageVars

PageNext ==
  \/ VivinoLoop
  \/ VivinoAcquire
  \/ \E e \in PageErrors : VivinoAcquireFails(e)
  \/ VivinoNewPage
  \/ \E e \in PageErrors : VivinoNewPageFails(e)
  \/ VivinoScrape
  \/ \E e \in PageErrors : VivinoScrapeFails(e)
  \/ \E closed \in BOOLEAN : VivinoFinally(closed)
  \/ VivinoAttemptFailed

\* no attempt of performVivinoSearch is between its first and last statement
NoAttemptRunning == vPc \in {"loop", "failed", "done"}

\* C24 as stated: once an attempt has returned or thrown, and so once the
\* search has finished, no page it opened is open
C24_NoPageRemainsOpen == NoAttemptRunning => openPages = {}

\* C24: once an attempt has returned or thrown, page.close() has been called
\* and has settled for every page opened, and a page is still open only if
\* its close() was rejected
C24_EveryPageCloseSettled ==
  NoAttemptRunning =>
    /\ 1..pagesMade \subseteq closeSettled
    /\ openPages = closeFailed

\* the search failed after all its retries, each attempt having opened a page
\* and an error having been thrown with the page open, and no page is open
C24_Witness ==
  /\ vPc = "done" /\ vOutcome = "thrown"
  /\ pagesMade = MAX_RETRIES
  /\ openPages = {}

(***************************************************************************)
(* Specifications                                                          *)
(***************************************************************************)
Idle(components) ==
  /\ "db" \in components => DbStart(FALSE)
  /\ "api" \in components => ApiInit
  /\ "retry" \in components => RetryInit
  /\ "sim" \in components => SimIdle
  /\ "dedup" \in components => DedupIdle
  /\ "rating" \in components => RatingIdle
  /\ "search" \in components => SearchIdle
  /\ "fields" \in components => FieldIdle
  /\ "cascade" \in components => CascadeStart(FALSE)
  /\ "routing" \in components => RoutingIdle
  /\ "consume" \in components => ConsumeIdle
  /\ "region" \in components => RegionIdle
  /\ "memory" \in components => MemoryIdle
  /\ "page" \in components => PageIdle

InitDb ==
  DbInit /\ Idle({"api", "retry", "sim", "dedup", "rating", "search",
        "fields",
        "cascade", "routing", "consume", "region", "memory", "page"})
NextDb == DbNext
SpecDb == InitDb /\ [][NextDb]_vars

InitApi ==
  ApiInit /\ Idle({"db", "retry", "sim", "dedup", "rating", "search",
        "fields",
        "cascade", "routing", "consume", "region", "memory", "page"})
NextApi == ApiNext
SpecApi == InitApi /\ [][NextApi]_vars

InitRetry ==
  RetryInit /\ Idle({"db", "api", "sim", "dedup", "rating", "search",
        "fields",
        "cascade", "routing", "consume", "region", "memory", "page"})
NextRetry == RetryNext
\* the operation's promise settles and a set timer fires
FairSpecRetry == InitRetry /\ [][NextRetry]_vars /\ WF_vars(NextRetry)

InitSim ==
  SimInit /\ Idle({"db", "api", "retry", "dedup", "rating", "search",
        "fields",
        "cascade", "routing", "consume", "region", "memory", "page"})
NextSim == SimNext
SpecSim == InitSim /\ [][NextSim]_vars

InitDedup ==
  DedupInit /\ Idle({"db", "api", "retry", "sim", "rating", "search",
        "fields",
        "cascade", "routing", "consume", "region", "memory", "page"})
NextDedup == DedupNext
SpecDedup == InitDedup /\ [][NextDedup]_vars

InitRating ==
  RatingInit /\ Idle({"db", "api", "retry", "sim", "dedup", "search",
        "fields",
        "cascade", "routing", "consume", "region", "memory", "page"})
NextRating == RatingNext
SpecRating == InitRating /\ [][NextRating]_vars

InitSearch ==
  SearchInit /\ Idle({"db", "api", "retry", "sim", "dedup", "rating",
        "fields",
        "cascade", "routing", "consume", "region", "memory", "page"})
NextSearch == SearchNext
SpecSearch == InitSearch /\ [][NextSearch]_vars

InitFields ==
  FieldInit /\ Idle({"db", "api", "retry", "sim", "dedup", "rating", "search",
        "cascade", "routing", "consume", "region", "memory", "page"})
NextFields == FieldNext
SpecFields == InitFields /\ [][NextFields]_vars

InitCascade ==
  CascadeInit /\ Idle({"db", "api", "retry", "sim", "dedup", "rating",
        "search", "fields", "routing", "consume", "region", "memory", "page"})
NextCascade == CascadeNext
SpecCascade == InitCascade /\ [][NextCascade]_vars

InitRouting ==
  RoutingInit /\ Idle({"db", "api", "retry", "sim", "dedup", "rating",
        "search", "fields", "cascade", "consume", "region", "memory", "page"})
NextRouting == RoutingNext
SpecRouting == InitRouting /\ [][NextRouting]_vars

InitConsume ==
  ConsumeInit /\ Idle({"db", "api", "retry", "sim", "dedup", "rating",
        "search", "fields", "cascade", "routing", "region", "memory", "page"})
NextConsume == ConsumeNext
SpecConsume == InitConsume /\ [][NextConsume]_vars

InitRegion ==
  RegionInit /\ Idle({"db", "api", "retry", "sim", "dedup", "rating",
        "search", "fields", "cascade", "routing", "consume", "memory", "page"})
NextRegion == RegionNext
SpecRegion == InitRegion /\ [][NextRegion]_vars

InitMemory ==
  MemoryInit /\ Idle({"db", "api", "retry", "sim", "dedup", "rating",
        "search", "fields", "cascade", "routing", "consume", "region", "page"})
NextMemory == MemoryNext
SpecMemory == InitMemory /\ [][NextMemory]_vars

InitPage ==
  PageInit /\ Idle({"db", "api", "retry", "sim", "dedup", "rating",
        "search", "fields", "cascade", "routing", "consume", "region",
        "memory"})
NextPage == PageNext
SpecPage == InitPage /\ [][NextPage]_vars

====
